---------------------------- MODULE Spec2Model ----------------------------
(***************************************************************************)
(* A model of the rust-redis server: the RESP codec, the command           *)
(* dispatcher of a primary (master), the fan-out of writes to the          *)
(* registered replicas, the replica's ingestion loop, and the key-value    *)
(* store with lazy expiry.                                                 *)
(*                                                                         *)
(* Bytes are integers 0..255; a string is a sequence of bytes.  Every      *)
(* string literal of the source is written as its ASCII bytes with the     *)
(* text in a comment.                                                      *)
(***************************************************************************)
EXTENDS Integers, Sequences, FiniteSets, TLC

(***************************************************************************)
(* Generic helpers on sequences.                                           *)
(***************************************************************************)
Range(s) == {s[i] : i \in DOMAIN s}

Drop(s, n) == SubSeq(s, n + 1, Len(s))

Take(s, n) == SubSeq(s, 1, n)

RECURSIVE FlattenTo(_, _)
FlattenTo(ss, n) == IF n = 0 THEN <<>> ELSE FlattenTo(ss, n - 1) \o ss[n]

Flatten(ss) == FlattenTo(ss, Len(ss))

(***************************************************************************)
(* parser/payload.rs: constants.                                           *)
(***************************************************************************)
\* "\r\n"
DELIMITER == <<13, 10>>

TYPE_SPECIFIER_LEN == 1

(***************************************************************************)
(* Decimal formatting and parsing (Rust's Display for usize and            *)
(* str::parse::<usize>).                                                   *)
(***************************************************************************)
RECURSIVE FormatNat(_)
FormatNat(n) == IF n < 10 THEN <<48 + n>> ELSE FormatNat(n \div 10) \o <<48 + (n % 10)>>

IsDigit(b) == b >= 48 /\ b <= 57

RECURSIVE DigitsValue(_)
DigitsValue(s) ==
    IF s = <<>> THEN 0 ELSE 10 * DigitsValue(Take(s, Len(s) - 1)) + (s[Len(s)] - 48)

\* usize::from_str: an optional leading '+', then one or more decimal digits.
ParseUsize(s) ==
    LET body == IF s # <<>> /\ s[1] = 43 THEN Tail(s) ELSE s
    IN  IF body # <<>> /\ \A i \in DOMAIN body : IsDigit(body[i])
        THEN [ok |-> TRUE, n |-> DigitsValue(body)]
        ELSE [ok |-> FALSE, n |-> 0]

\* str::to_lowercase on ASCII text.
ToLower(s) == [i \in DOMAIN s |-> IF s[i] >= 65 /\ s[i] <= 90 THEN s[i] + 32 ELSE s[i]]

(***************************************************************************)
(* parser/command.rs: the command table.                                   *)
(***************************************************************************)
CommandNames ==
    [Ping     |-> <<112, 105, 110, 103>>,                         \* "ping"
     Echo     |-> <<101, 99, 104, 111>>,                          \* "echo"
     Get      |-> <<103, 101, 116>>,                              \* "get"
     Set      |-> <<115, 101, 116>>,                              \* "set"
     Type     |-> <<116, 121, 112, 101>>,                         \* "type"
     XAdd     |-> <<120, 97, 100, 100>>,                          \* "xadd"
     Info     |-> <<105, 110, 102, 111>>,                         \* "info"
     ReplConf |-> <<114, 101, 112, 108, 99, 111, 110, 102>>,      \* "replconf"
     PSync    |-> <<112, 115, 121, 110, 99>>]                     \* "psync"

NoCommand == "None"

\* Command::parse that matches the name as it is written.
CommandParseExact(s) ==
    IF \E c \in DOMAIN CommandNames : CommandNames[c] = s
    THEN CHOOSE c \in DOMAIN CommandNames : CommandNames[c] = s
    ELSE NoCommand

\* Command::parse: Some(command) or None.
CommandParse(s) ==
    LET low == ToLower(s)
    IN  IF \E c \in DOMAIN CommandNames : CommandNames[c] = low
        THEN CHOOSE c \in DOMAIN CommandNames : CommandNames[c] = low
        ELSE NoCommand

\* impl Display for Command
CommandDisplay ==
    [Ping     |-> <<80, 73, 78, 71>>,                             \* "PING"
     Echo     |-> <<69, 67, 72, 79>>,                             \* "ECHO"
     Get      |-> <<71, 69, 84>>,                                 \* "GET"
     Set      |-> <<83, 69, 84>>,                                 \* "SET"
     Type     |-> <<84, 89, 80, 69>>,                             \* "TYPE"
     XAdd     |-> <<88, 65, 68, 68>>,                             \* "XADD"
     Info     |-> <<73, 78, 70, 79>>,                             \* "INFO"
     ReplConf |-> <<82, 69, 80, 76, 67, 79, 78, 70>>,             \* "REPLCONF"
     PSync    |-> <<80, 83, 89, 78, 67>>]                         \* "PSYNC"

(***************************************************************************)
(* parser/payload.rs: Payload and its encoder.                             *)
(***************************************************************************)
SimpleString(s) == [t |-> "SimpleString", s |-> s, items |-> <<>>]

BulkString(s) == [t |-> "BulkString", s |-> s, items |-> <<>>]

Array(items) == [t |-> "Array", s |-> <<>>, items |-> items]

\* Payload::build_bulk_string_array
BuildBulkStringArray(strs) == Array([i \in DOMAIN strs |-> BulkString(strs[i])])

\* "unimplemented!"
UnimplementedText == <<117, 110, 105, 109, 112, 108, 101, 109, 101, 110, 116, 101, 100, 33>>

\* impl Display for Payload
PayloadToString(p) == IF p.t = "BulkString" THEN p.s ELSE UnimplementedText

\* impl RedisEncodable for Payload
RECURSIVE RedisEncode(_)
RedisEncode(p) ==
    CASE p.t = "SimpleString" -> <<43>> \o p.s \o DELIMITER
      [] p.t = "BulkString"   -> <<36>> \o FormatNat(Len(p.s)) \o DELIMITER \o p.s \o DELIMITER
      [] p.t = "Array"        ->
            <<42>> \o FormatNat(Len(p.items)) \o DELIMITER
                   \o Flatten([i \in DOMAIN p.items |-> RedisEncode(p.items[i])])


(***************************************************************************)
(* parser/payload.rs: the decoder.  A result is                            *)
(*   [st |-> "ok" | "err" | "panic", val |-> payload, used |-> consumed].  *)
(* "err" is an Err(..) return; "panic" is a Rust panic (a slice index out  *)
(* of range), which unwinds the task that called the parser.               *)
(***************************************************************************)
NoPayload == [t |-> "None", s |-> <<>>, items |-> <<>>]

ParseOk(val, used) == [st |-> "ok", val |-> val, used |-> used]

ParseErr == [st |-> "err", val |-> NoPayload, used |-> 0]

ParsePanic == [st |-> "panic", val |-> NoPayload, used |-> 0]

\* str::split_once(DELIMITER): the index of the first "\r\n", or 0.
FindDelimiter(s) ==
    LET hits == {i \in 1..(Len(s) - 1) : s[i] = 13 /\ s[i + 1] = 10}
    IN  IF hits = {} THEN 0 ELSE CHOOSE i \in hits : \A j \in hits : i <= j

\* Payload::from_simple_string
FromSimpleString(s) ==
    LET body == Drop(s, TYPE_SPECIFIER_LEN)
        at   == FindDelimiter(body)
    IN  IF at = 0 THEN ParseErr
        ELSE ParseOk(SimpleString(Take(body, at - 1)), (at - 1) + 3)

\* from_bulk_string that does not count the delimiter after the data.
FromBulkStringDataOnly(s) ==
    LET body == Drop(s, TYPE_SPECIFIER_LEN)
        at   == FindDelimiter(body)
        length_str == Take(body, at - 1)
        rest == Drop(body, at + 1)
        length == ParseUsize(length_str)
        start_index == Len(length_str) + 2
    IN  IF at = 0 THEN ParseErr
        ELSE IF ~length.ok THEN ParseErr
        ELSE IF Len(rest) < length.n THEN ParseErr
        ELSE ParseOk(BulkString(Take(rest, length.n)),
                     TYPE_SPECIFIER_LEN + start_index + length.n)

\* Payload::from_bulk_string
FromBulkString(s) ==
    LET body == Drop(s, TYPE_SPECIFIER_LEN)
        at   == FindDelimiter(body)
        length_str == Take(body, at - 1)
        rest == Drop(body, at + 1)
        length == ParseUsize(length_str)
        start_index == Len(length_str) + 2
    IN  IF at = 0 THEN ParseErr
        ELSE IF ~length.ok THEN ParseErr
        ELSE IF Len(rest) < length.n THEN ParseErr
        ELSE ParseOk(BulkString(Take(rest, length.n)),
                     TYPE_SPECIFIER_LEN + start_index + length.n + 2)

RECURSIVE FromChar(_)
RECURSIVE FromArrayElements(_, _, _, _)
\* The loop of Payload::from_array: n elements left to parse from rest.
FromArrayElements(rest, n, parsed_elements, cumulative_offset) ==
    IF n = 0 THEN ParseOk(Array(parsed_elements), cumulative_offset)
    ELSE IF rest = <<>> THEN ParseErr
    ELSE LET r == FromChar(rest)
         IN  IF r.st # "ok" THEN r
             ELSE IF r.used > Len(rest) THEN ParsePanic
             ELSE FromArrayElements(Drop(rest, r.used), n - 1,
                                    Append(parsed_elements, r.val),
                                    cumulative_offset + r.used)

\* Payload::from_array
FromArray(s) ==
    LET body == Drop(s, TYPE_SPECIFIER_LEN)
        at   == FindDelimiter(body)
        number_of_elements_str == Take(body, at - 1)
        rest == Drop(body, at + 1)
        number_of_elements == ParseUsize(number_of_elements_str)
    IN  IF at = 0 THEN ParseErr
        ELSE IF ~number_of_elements.ok THEN ParseErr
        ELSE LET r == FromArrayElements(rest, number_of_elements.n, <<>>, 0)
             IN  IF r.st # "ok" THEN r
                 ELSE ParseOk(r.val, r.used + TYPE_SPECIFIER_LEN
                                       + Len(number_of_elements_str) + Len(DELIMITER))

\* Payload::from_char and Payload::from_byte: dispatch on the type specifier.
FromChar(s) ==
    CASE s[1] = 43 -> FromSimpleString(s)
      [] s[1] = 42 -> FromArray(s)
      [] s[1] = 36 -> FromBulkString(s)
      [] OTHER     -> ParseErr

\* Payload::is_command
IsCommand(p) == p.t = "BulkString" /\ CommandParse(p.s) # NoCommand

(***************************************************************************)
(* parser/protocol.rs: RedisProtocolParser::parse.  Only the first         *)
(* top-level payload of the buffer is decoded: the consumed count that     *)
(* from_byte returns is discarded and the rest of the buffer with it.  An  *)
(* Array is regrouped: every element that names a command starts a group.  *)
(***************************************************************************)
RECURSIVE GroupCommands(_, _, _)
GroupCommands(arr, result, current_group) ==
    IF arr = <<>>
    THEN IF current_group # <<>> THEN Append(result, Array(current_group)) ELSE result
    ELSE IF IsCommand(Head(arr)) /\ current_group # <<>>
         THEN GroupCommands(Tail(arr), Append(result, Array(current_group)), <<Head(arr)>>)
         ELSE GroupCommands(Tail(arr), result, Append(current_group, Head(arr)))

\* [st, payloads]
ProtocolParse(buf) ==
    IF buf = <<>> THEN [st |-> "err", payloads |-> <<>>]
    ELSE LET r == FromChar(buf)
         IN  IF r.st # "ok" THEN [st |-> r.st, payloads |-> <<>>]
             ELSE IF r.val.t = "Array"
                  THEN [st |-> "ok", payloads |-> GroupCommands(r.val.items, <<>>, <<>>)]
                  ELSE [st |-> "ok", payloads |-> <<r.val>>]

(***************************************************************************)
(* parser/payload.rs: Value and Payload::retrieve_content.                 *)
(***************************************************************************)
ValueArray(items) == [t |-> "Array", s |-> <<>>, items |-> items]

ValueString(s) == [t |-> "String", s |-> s, items |-> <<>>]

ValueEmpty == [t |-> "Empty", s |-> <<>>, items |-> <<>>]

\* [ok, command, contents]
RetrieveContent(p) ==
    CASE p.t = "BulkString" ->
            [ok |-> TRUE, command |-> CommandParse(p.s),
             contents |-> IF CommandParse(p.s) = NoCommand THEN ValueString(p.s) ELSE ValueEmpty]
      [] p.t = "Array" /\ p.items # <<>> /\ p.items[1].t = "BulkString" ->
            [ok |-> TRUE, command |-> CommandParse(p.items[1].s),
             contents |-> IF CommandParse(p.items[1].s) = NoCommand
                          THEN ValueArray(p.items) ELSE ValueArray(Tail(p.items))]
      [] OTHER -> [ok |-> FALSE, command |-> NoCommand, contents |-> ValueEmpty]

(***************************************************************************)
(* store/redis_type.rs: RedisType.  A Stream's entries are a HashMap,      *)
(* modelled as a function from field to value.                             *)
(***************************************************************************)
EmptyMap == [x \in {} |-> <<>>]

RString(s) == [t |-> "String", s |-> s, key |-> <<>>, entries |-> EmptyMap]

RStream(key, entries) == [t |-> "Stream", s |-> <<>>, key |-> key, entries |-> entries]

\* "Invalid call for stream."
InvalidCallForStream ==
    <<73, 110, 118, 97, 108, 105, 100, 32, 99, 97, 108, 108, 32,
      102, 111, 114, 32, 115, 116, 114, 101, 97, 109, 46>>

\* RedisType::as_inner
AsInner(v) == IF v.t = "String" THEN v.s ELSE InvalidCallForStream

\* RedisType::type_str: "+string\r\n" or "+stream\r\n"
TypeStr(v) ==
    IF v.t = "String"
    THEN <<43, 115, 116, 114, 105, 110, 103>> \o DELIMITER
    ELSE <<43, 115, 116, 114, 101, 97, 109>> \o DELIMITER

\* Stream::new: the arguments are taken two at a time while both exist.
RECURSIVE StreamEntries(_, _)
StreamEntries(args, entries) ==
    IF Len(args) < 2 THEN entries
    ELSE StreamEntries(Drop(args, 2),
                       [f \in (DOMAIN entries) \cup {PayloadToString(args[1])} |->
                           IF f = PayloadToString(args[1]) THEN PayloadToString(args[2])
                           ELSE entries[f]])

StreamNew(key, args) == RStream(key, StreamEntries(args, EmptyMap))

(***************************************************************************)
(* store/store.rs: KeyValueStore.  data maps keys to values; expiries maps *)
(* an instant to the keys scheduled to expire then (a BTreeMap of Vecs).   *)
(* Instants are integers (milliseconds).                                   *)
(***************************************************************************)
Some(v) == [some |-> TRUE, v |-> v]

None == [some |-> FALSE, v |-> 0]

\* KeyValueStore::new
StoreNew == [data |-> EmptyMap, expiries |-> EmptyMap]

\* "+OK\r\n"
OkReply == <<43, 79, 75>> \o DELIMITER

\* "$-1\r\n"
NullBulk == <<36, 45, 49>> \o DELIMITER

\* "+none\r\n"
NoneType == <<43, 110, 111, 110, 101>> \o DELIMITER

\* set_expiry that puts the key in the place of the list of its instant.
SetExpiryReplacing(st, key, expiry_ms, now_) ==
    LET expiry_time == now_ + expiry_ms
    IN  [st EXCEPT !.expiries =
            [t \in (DOMAIN st.expiries) \cup {expiry_time} |->
                IF t = expiry_time THEN <<key>> ELSE st.expiries[t]]]

\* KeyValueStore::set_expiry
SetExpiry(st, key, expiry_ms, now_) ==
    LET expiry_time == now_ + expiry_ms
    IN  [st EXCEPT !.expiries =
            [t \in (DOMAIN st.expiries) \cup {expiry_time} |->
                IF t = expiry_time
                THEN (IF t \in DOMAIN st.expiries THEN st.expiries[t] ELSE <<>>) \o <<key>>
                ELSE st.expiries[t]]]

\* An insertion that keeps the value a key already has.
DataInsertIfAbsent(st, key, value) ==
    [st EXCEPT !.data = [k \in (DOMAIN st.data) \cup {key} |->
                            IF k \in DOMAIN st.data THEN st.data[k] ELSE value]]

\* The insertion of KeyValueStore::set.
DataInsert(st, key, value) ==
    [st EXCEPT !.data = [k \in (DOMAIN st.data) \cup {key} |->
                            IF k = key THEN value ELSE st.data[k]]]

\* set that first takes the key out of every list of expiries.
StoreSetForgettingExpiry(st, key, value, expiry_ms, now_) ==
    LET forgotten ==
            [st EXCEPT !.expiries =
                [t \in DOMAIN st.expiries |->
                    SelectSeq(st.expiries[t], LAMBDA k : k # key)]]
    IN  DataInsert(IF expiry_ms.some THEN SetExpiry(forgotten, key, expiry_ms.v, now_)
                   ELSE forgotten,
                   key, value)

\* KeyValueStore::set: the store after the call (the reply is always OkReply).
StoreSet(st, key, value, expiry_ms, now_) ==
    DataInsert(IF expiry_ms.some THEN SetExpiry(st, key, expiry_ms.v, now_) ELSE st,
               key, value)

\* The instants of expiries that clean_expiries keeps: split_off(&now).
KeptInstants(st, now_) == {t \in DOMAIN st.expiries : t >= now_}

\* clean_expiries that spares the keys due at this very instant.
CleanExpiriesBeforeNow(st, now_) ==
    LET due == {t \in DOMAIN st.expiries : t < now_}
        keys_to_remove == UNION {Range(st.expiries[t]) : t \in due}
    IN  [data     |-> [k \in (DOMAIN st.data) \ keys_to_remove |-> st.data[k]],
         expiries |-> [t \in KeptInstants(st, now_) |-> st.expiries[t]]]

\* KeyValueStore::clean_expiries
CleanExpiries(st, now_) ==
    LET due == {t \in DOMAIN st.expiries : t <= now_}
        keys_to_remove == UNION {Range(st.expiries[t]) : t \in due}
    IN  [data     |-> [k \in (DOMAIN st.data) \ keys_to_remove |-> st.data[k]],
         expiries |-> [t \in KeptInstants(st, now_) |-> st.expiries[t]]]

\* The lookup of KeyValueStore::get, after the sweep.
Lookup(st, key) ==
    IF key \in DOMAIN st.data THEN RedisEncode(BulkString(AsInner(st.data[key])))
    ELSE NullBulk

\* KeyValueStore::get: the store after the call and the reply.
StoreGet(st, key, now_) ==
    LET swept == CleanExpiries(st, now_)
    IN  [store |-> swept, resp |-> Lookup(swept, key)]

\* KeyValueStore::get_type
GetType(st, key) == IF key \in DOMAIN st.data THEN TypeStr(st.data[key]) ELSE NoneType

(***************************************************************************)
(* client.rs: the role of a node and the literals of the PSYNC exchange.   *)
(***************************************************************************)
\* ClientRole::Master.replication_id ("some_id")
ReplicationId == <<115, 111, 109, 101, 95, 105, 100>>

\* ClientRole::Master.replication_offset
ReplicationOffset == 0

\* ClientRole::Slave.master_id ("?") and master_offset (-1, rendered "-1")
MasterId == <<63>>

MasterOffsetText == <<45, 49>>

\* ClientRole::psync for the Master: "+FULLRESYNC <id> <offset>\r\n"
PsyncMaster ==
    RedisEncode(SimpleString(<<70, 85, 76, 76, 82, 69, 83, 89, 78, 67, 32>>
                             \o ReplicationId \o <<32>> \o FormatNat(ReplicationOffset)))

\* ClientRole::psync for the Slave: the array PSYNC <master_id> <master_offset>
PsyncSlave ==
    RedisEncode(BuildBulkStringArray(<< <<80, 83, 89, 78, 67>>, MasterId, MasterOffsetText >>))

\* ClientRole::psync
RolePsync(role) == IF role = "Master" THEN PsyncMaster ELSE PsyncSlave

\* impl Display for ClientRole (Slave): "role:slave"
RoleSlaveText == <<114, 111, 108, 101, 58, 115, 108, 97, 118, 101>>

\* impl Display for ClientRole (Master):
\* "role:master\nmaster_replid:<id>\nmaster_repl_offset:<offset>"
RoleMasterText ==
    <<114, 111, 108, 101, 58, 109, 97, 115, 116, 101, 114, 10,
      109, 97, 115, 116, 101, 114, 95, 114, 101, 112, 108, 105, 100, 58>>
    \o ReplicationId
    \o <<10, 109, 97, 115, 116, 101, 114, 95, 114, 101, 112, 108, 95,
         111, 102, 102, 115, 101, 116, 58>>
    \o FormatNat(ReplicationOffset)

\* The hex literal of get_empty_rdb: the 88 bytes of an empty RDB file.
EmptyRdbData ==
    <<82, 69, 68, 73, 83, 48, 48, 49, 49, 250, 9, 114, 101, 100, 105, 115, 45, 118,
      101, 114, 5, 55, 46, 50, 46, 48, 250, 10, 114, 101, 100, 105, 115, 45, 98, 105,
      116, 115, 192, 64, 250, 5, 99, 116, 105, 109, 101, 194, 109, 8, 188, 101, 250, 8,
      117, 115, 101, 100, 45, 109, 101, 109, 194, 176, 196, 16, 0, 250, 8, 97, 111, 102,
      45, 98, 97, 115, 101, 192, 0, 255, 240, 110, 59, 254, 192, 255, 90, 162>>

\* get_empty_rdb of a Master that ends the file like a bulk string.
GetEmptyRdbDelimited ==
    <<36>> \o FormatNat(Len(EmptyRdbData)) \o DELIMITER \o EmptyRdbData \o DELIMITER

\* get_empty_rdb: "$<len>\r\n" followed by the data
GetEmptyRdb == <<36>> \o FormatNat(Len(EmptyRdbData)) \o DELIMITER \o EmptyRdbData

\* The size of the read buffers (let mut buf = [0; 1024]).
BufSize == 1024

\* main.rs PSYNC_IGNORE: the first 93 bytes of the static; the other 931 are 0.
PsyncIgnorePrefix ==
    <<36, 56, 56, 13, 10, 82, 69, 68, 73, 83, 48, 48, 49, 49, 250, 9, 114, 101, 100,
      105, 115, 45, 118, 101, 114, 5, 55, 46, 50, 46, 48, 250, 10, 114, 101, 100, 105,
      115, 45, 98, 105, 116, 115, 192, 64, 250, 5, 99, 116, 105, 109, 101, 194, 109, 8,
      188, 101, 250, 8, 117, 115, 101, 100, 45, 109, 101, 109, 194, 176, 196, 16, 0,
      250, 8, 97, 111, 102, 45, 98, 97, 115, 101, 192, 0, 255, 240, 110, 59, 254, 192,
      255, 90, 162>>

\* buf == PSYNC_IGNORE, for a zeroed buffer that received the bytes read.
IsPsyncIgnore(read) ==
    LET n == Len(PsyncIgnorePrefix)
    IN  /\ Len(read) >= n
        /\ Take(read, n) = PsyncIgnorePrefix
        /\ \A i \in (n + 1)..Len(read) : read[i] = 0

(***************************************************************************)
(* std::str::from_utf8: whether the bytes are well-formed UTF-8.           *)
(***************************************************************************)
IsCont(s, i) == i <= Len(s) /\ s[i] >= 128 /\ s[i] <= 191

\* The number of continuation bytes the lead byte b announces, or -1.
Utf8Width(b) ==
    CASE b < 128 -> 0
      [] b >= 194 /\ b <= 223 -> 1
      [] b >= 224 /\ b <= 239 -> 2
      [] b >= 240 /\ b <= 244 -> 3
      [] OTHER -> 0 - 1

\* The range of the byte after the lead bytes E0, ED, F0 and F4.
Utf8SecondOk(s, i) ==
    CASE s[i] = 224 -> s[i + 1] >= 160
      [] s[i] = 237 -> s[i + 1] <= 159
      [] s[i] = 240 -> s[i + 1] >= 144
      [] s[i] = 244 -> s[i + 1] <= 143
      [] OTHER -> TRUE

\* Every byte that is no continuation byte leads a sequence of exactly the
\* width it announces, and the text does not start inside a sequence.
FromUtf8Ok(s) ==
    /\ ~IsCont(s, 1)
    /\ \A i \in DOMAIN s :
         IsCont(s, i) \/
           LET w == Utf8Width(s[i])
           IN  /\ w >= 0
               /\ \A j \in 1..w : IsCont(s, i + j)
               /\ ~IsCont(s, i + w + 1)
               /\ Utf8SecondOk(s, i)

(***************************************************************************)
(* client.rs: process_set and the commands of process_command that touch   *)
(* neither the replica map nor a lock held across steps.                   *)
(***************************************************************************)
\* i64::from_str: an optional sign, then one or more decimal digits.
ParseI64(s) ==
    LET signed == s # <<>> /\ s[1] \in {43, 45}
        body == IF signed THEN Tail(s) ELSE s
    IN  IF body # <<>> /\ \A i \in DOMAIN body : IsDigit(body[i])
        THEN [ok |-> TRUE,
              n |-> IF signed /\ s[1] = 45 THEN 0 - DigitsValue(body) ELSE DigitsValue(body)]
        ELSE [ok |-> FALSE, n |-> 0]

\* "px"
PxOption == <<112, 120>>

\* RedisClient::process_set, on the arguments x of a SET (x[1] the key, x[2] the
\* value, x[3] and x[4] the optional option and its value): [ok, store].
ProcessSet(st, x, now_) ==
    IF Len(x) >= 3
    THEN IF Len(x) < 4 THEN [ok |-> FALSE, store |-> st]
         ELSE LET arg_value == ParseI64(PayloadToString(x[4]))
              IN  IF ~arg_value.ok THEN [ok |-> FALSE, store |-> st]
                  ELSE IF ToLower(PayloadToString(x[3])) = PxOption
                       THEN [ok |-> TRUE,
                             store |-> StoreSet(st, PayloadToString(x[1]),
                                                RString(PayloadToString(x[2])),
                                                Some(arg_value.n), now_)]
                       ELSE [ok |-> FALSE, store |-> st]
    ELSE [ok |-> TRUE,
          store |-> StoreSet(st, PayloadToString(x[1]), RString(PayloadToString(x[2])),
                             None, now_)]

\* The payload of a Master that forwards the SET as the client spelled it.
SetPropagationVerbatim(name, x) ==
    RedisEncode(BuildBulkStringArray(
        << name, PayloadToString(x[1]), AsInner(RString(PayloadToString(x[2]))) >>))

\* The payload of a Master that forwards the option and its value as well.
SetPropagationWithOption(name, x) ==
    RedisEncode(BuildBulkStringArray(
        << <<83, 69, 84>> >> \o [i \in DOMAIN x |-> PayloadToString(x[i])]))

\* The payload a Master fans out for SET: the array SET <key> <value>.
SetPropagationPayload(name, x) ==
    RedisEncode(BuildBulkStringArray(
        << <<83, 69, 84>>, PayloadToString(x[1]), AsInner(RString(PayloadToString(x[2]))) >>))

\* PayloadVec::redis_encode: the encodings joined by ", "
RECURSIVE PayloadVecEncode(_)
PayloadVecEncode(x) ==
    IF x = <<>> THEN <<>>
    ELSE IF Len(x) = 1 THEN RedisEncode(x[1])
    ELSE RedisEncode(x[1]) \o <<44, 32>> \o PayloadVecEncode(Tail(x))

\* "+PONG\r\n"
PongReply == RedisEncode(SimpleString(<<80, 79, 78, 71>>))

\* "replication"
ReplicationSection == <<114, 101, 112, 108, 105, 99, 97, 116, 105, 111, 110>>

CmdResult(st_, store_, response_) == [st |-> st_, store |-> store_, response |-> response_]

\* The single argument of GET, TYPE and INFO: [st, s].
SingleArgument(contents) ==
    CASE contents.t = "String" -> [st |-> "ok", s |-> contents.s]
      [] contents.t = "Array" ->
            IF contents.items = <<>> THEN [st |-> "panic", s |-> <<>>]
            ELSE [st |-> "ok", s |-> PayloadToString(contents.items[1])]
      [] OTHER -> [st |-> "err", s |-> <<>>]

\* The XADD arm: the stream holds the arguments after the first field.
XAddCommand(contents, st) ==
    IF contents.t # "Array" THEN CmdResult("err", st, <<>>)
    ELSE LET x == contents.items
         IN  IF Len(x) < 2 THEN CmdResult("panic", st, <<>>)
             ELSE LET stream_key == PayloadToString(x[1])
                      entry_id == PayloadToString(x[2])
                      value == Drop(x, 2)
                  IN  IF value = <<>> THEN CmdResult("panic", st, <<>>)
                      ELSE CmdResult("ok",
                                     DataInsert(st, stream_key, StreamNew(entry_id, Tail(value))),
                                     RedisEncode(BulkString(entry_id)))

\* process_command of a node of the given role for Echo, Ping, Get, Type, XAdd,
\* Info, ReplConf: [st |-> "ok" | "err" | "panic", store, response].
SimpleCommand(role, command, contents, st, now_) ==
    CASE command = "Echo" ->
            CmdResult("ok", st,
                      CASE contents.t = "String" -> contents.s
                        [] contents.t = "Array"  -> PayloadVecEncode(contents.items)
                        [] OTHER                 -> <<>>)
      [] command = "Ping" -> CmdResult("ok", st, PongReply)
      [] command = "Get" ->
            LET a == SingleArgument(contents)
            IN  IF a.st # "ok" THEN CmdResult(a.st, st, <<>>)
                ELSE CmdResult("ok", StoreGet(st, a.s, now_).store, StoreGet(st, a.s, now_).resp)
      [] command = "Type" ->
            LET a == SingleArgument(contents)
            IN  IF a.st # "ok" THEN CmdResult(a.st, st, <<>>)
                ELSE CmdResult("ok", st, GetType(st, a.s))
      [] command = "XAdd" -> XAddCommand(contents, st)
      [] command = "Info" ->
            LET a == SingleArgument(contents)
            IN  IF a.st # "ok" THEN CmdResult(a.st, st, <<>>)
                ELSE IF a.s = ReplicationSection
                     THEN CmdResult("ok", st,
                                    RedisEncode(BulkString(IF role = "Master"
                                                           THEN RoleMasterText
                                                           ELSE RoleSlaveText)))
                     ELSE CmdResult("err", st, <<>>)
      [] command = "ReplConf" ->
            \* any role but Master: unimplemented!()
            IF role = "Master" THEN CmdResult("ok", st, OkReply)
            ELSE CmdResult("panic", st, <<>>)

(***************************************************************************)
(* The system: one primary, the peers that connect to it, and the replica  *)
(* processes behind some of the peers.                                     *)
(***************************************************************************)
NumClients == 2

NumReplicas == 1

\* The number of commands the clients send, all together.
MaxCommands == 2

Clients == 1..NumClients

Replicas == (NumClients + 1)..(NumClients + NumReplicas)

Peers == Clients \cup Replicas

\* addr.to_string() of the peer's socket: "127.0.0.1:<port>", a port per peer
Addr(p) == <<49, 50, 55, 46, 48, 46, 48, 46, 49, 58>> \o FormatNat(50000 + p)

VARIABLES
    script,             \* client -> the commands it sends (each a list of strings)
    sock,               \* peer -> "open" | "closed" | "stuck": the peer's end of its socket
    c2p,                \* peer -> the writes of the peer the primary has not read yet
    p2c,                \* peer -> every write of the primary to the peer's socket, in order
    task,               \* peer -> the state of its handle_connection task
    wlock,              \* peer -> whether the Mutex of its write half is held across steps
    mapLock,            \* the holder of the slave_connections Mutex, or 0
    slave_connections,  \* address -> write half (named by its peer)
    store,              \* the primary's KeyValueStore
    now,                \* Utc::now(), in milliseconds
    applied,            \* history: the writes applied to the primary's store, in order
    replica,            \* replica -> the state of the replica process behind the peer
    caller,             \* a sequential caller of KeyValueStore: its calls and the last reply
    hs,                 \* replica -> the RedisClient behind the peer and its handshake()
    client              \* the RedisClient that serves the peers: its role and, on a
                        \* Slave, the connection its master_stream_w writes to

vars == <<script, sock, c2p, p2c, task, wlock, mapLock, slave_connections, store, now,
          applied, replica, caller, hs, client>>

(***************************************************************************)
(* What the peers send.                                                    *)
(***************************************************************************)
KeyA == <<97>>

KeyB == <<98>>

Val1 == <<49>>

Val2 == <<50>>

\* The commands client p may send.  Client 1: SET a 1 spelled "set", SET b 2
\* spelled "SeT", and one array that carries two SETs; the other clients:
\* SET a 2 and XADD s 1-0 f v.
Menu(p) ==
    IF p = 1
    THEN { << <<115, 101, 116>>, KeyA, Val1 >>,
           << <<83, 101, 84>>, KeyB, Val2 >>,
           << <<83, 69, 84>>, KeyA, Val1, <<115, 101, 116>>, KeyB, Val1 >> }
    ELSE { << <<83, 69, 84>>, KeyA, Val2 >>,
           << <<88, 65, 68, 68>>, <<115>>, <<49, 45, 48>>, <<102>>, <<118>> >> }

ClientScripts(p) == UNION {[1..n -> Menu(p)] : n \in 0..MaxCommands}

RECURSIVE TotalLength(_, _)
TotalLength(scripts, ps) ==
    IF ps = {} THEN 0
    ELSE LET p == CHOOSE q \in ps : TRUE
         IN  Len(scripts[p]) + TotalLength(scripts, ps \ {p})

\* The scripts of the clients: at most MaxCommands commands all together.
Scripts ==
    {s \in [Clients -> UNION {ClientScripts(p) : p \in Clients}] :
        /\ \A p \in Clients : s[p] \in ClientScripts(p)
        /\ TotalLength(s, Clients) <= MaxCommands}

\* A client library's encoding of a command: an array of bulk strings.
ClientBytes(cmd) == RedisEncode(BuildBulkStringArray(cmd))

\* RedisClient::handshake: the four messages a replica writes, in order.
HandshakeMessages ==
    << RedisEncode(BuildBulkStringArray(<< <<112, 105, 110, 103>> >>)),
       \* "*3\r\n$8\r\nREPLCONF\r\n$14\r\nlistening-port\r\n$4\r\n6380\r\n"
       <<42, 51, 13, 10, 36, 56, 13, 10, 82, 69, 80, 76, 67, 79, 78, 70, 13, 10,
         36, 49, 52, 13, 10, 108, 105, 115, 116, 101, 110, 105, 110, 103, 45, 112, 111,
         114, 116, 13, 10, 36, 52, 13, 10, 54, 51, 56, 48, 13, 10>>,
       \* "*3\r\n$8\r\nREPLCONF\r\n$4\r\ncapa\r\n$6\r\npsync2\r\n"
       <<42, 51, 13, 10, 36, 56, 13, 10, 82, 69, 80, 76, 67, 79, 78, 70, 13, 10,
         36, 52, 13, 10, 99, 97, 112, 97, 13, 10, 36, 54, 13, 10, 112, 115, 121, 110,
         99, 50, 13, 10>>,
       PsyncSlave >>

\* connect_to_master, on what the dial came to: "connected", "refused", or
\* "timeout" (not connected within 2 seconds).
DialOutcomes == {"connected", "refused", "timeout"}

ConnectToMaster(outcome) == IF outcome = "connected" THEN "ok" ELSE "err"

\* A RedisClient of the given role before handshake(): no handle is set.
NewNode(role) == [role |-> role, pc |-> "dialing", dial |-> "none", stream |-> FALSE,
                  link |-> "up", sent |-> <<>>]

\* RedisClient::establish_stream: the node after the call; its pc is "sending"
\* when the call returned Ok and "failed" when it returned an error.
\* establish_stream that saved the handles before the dial had succeeded.
EstablishStreamHandlesFirst(node, outcome) ==
    IF node.role = "Master" THEN [node EXCEPT !.pc = "failed"]
    ELSE IF node.stream THEN [node EXCEPT !.pc = "failed"]
    ELSE [node EXCEPT !.pc = IF ConnectToMaster(outcome) = "ok" THEN "sending" ELSE "failed",
                      !.dial = outcome, !.stream = TRUE]

EstablishStream(node, outcome) ==
    IF node.role = "Master" THEN [node EXCEPT !.pc = "failed"]
    ELSE IF node.stream THEN [node EXCEPT !.pc = "failed"]
    ELSE IF ConnectToMaster(outcome) = "ok"
         THEN [node EXCEPT !.pc = "sending", !.dial = outcome, !.stream = TRUE]
         ELSE [node EXCEPT !.pc = "failed", !.dial = outcome]

\* RedisClient::send_message and the loop of handshake() around it: the node
\* after write_all returned res for the next message.
\* send_message that dropped the result of write_all (no `?`).
SendMessageIgnoringErrors(node, res) ==
    IF node.role = "Master" \/ ~node.stream
    THEN [node EXCEPT !.pc = "failed"]
    ELSE LET sent == Append(node.sent, HandshakeMessages[Len(node.sent) + 1])
         IN  [node EXCEPT !.sent = sent,
                          !.pc = IF Len(sent) = Len(HandshakeMessages)
                                 THEN "streaming" ELSE "sending"]

SendMessage(node, res) ==
    IF node.role = "Master" \/ ~node.stream \/ res = "err"
    THEN [node EXCEPT !.pc = "failed"]
    ELSE LET sent == Append(node.sent, HandshakeMessages[Len(node.sent) + 1])
         IN  [node EXCEPT !.sent = sent,
                          !.pc = IF Len(sent) = Len(HandshakeMessages)
                                 THEN "streaming" ELSE "sending"]

\* The node of a replica whose handshake() returned Ok.
StreamingNode ==
    [NewNode("Slave") EXCEPT !.pc = "streaming", !.dial = "connected", !.stream = TRUE,
                             !.sent = HandshakeMessages]

\* The RedisClient of a primary, and that of a replica whose handshake() has
\* returned Ok.  A write half is named by the peer of its connection; the
\* connection a replica dialled to its primary is none of its peers: 0.
MasterClient == [role |-> "Master", master_stream_w |-> None]

SlaveClient == [role |-> "Slave", master_stream_w |-> Some(0)]

\* The number of writes peer p has made.
SentCount(p) == IF p \in Replicas THEN Len(hs[p].sent) ELSE Len(script[p])

\* Everything peer p writes to the primary, one element per write.
PeerWrites(p) ==
    IF p \in Replicas THEN HandshakeMessages
    ELSE [i \in DOMAIN script[p] |-> ClientBytes(script[p][i])]

(***************************************************************************)
(* Initial state: the primary has been constructed (RedisClient::new with  *)
(* the Master role), its accept loop (main.rs) has accepted every peer and *)
(* spawned handle_connection for it, and nothing has been read yet.  A     *)
(* peer writes without waiting for replies, so all its writes are in       *)
(* flight; a replica has run RedisClient::handshake and is in its loop.    *)
(***************************************************************************)
NewTask == [pc |-> "read", batch |-> <<>>, seg |-> 0, grp |-> 0, payload |-> <<>>,
            targets |-> {}, pending |-> {}, response |-> <<>>]

\* The caller of the store before its first call: no reply yet, no key set.
NoReply == <<0>>

NewCaller == [sets |-> 0, op |-> "none", key |-> <<>>, time |-> 0, resp |-> NoReply,
              last |-> EmptyMap]

Init ==
    /\ script \in Scripts
    /\ sock = [p \in Peers |-> "open"]
    /\ c2p = [p \in Peers |-> PeerWrites(p)]
    /\ p2c = [p \in Peers |-> <<>>]
    /\ task = [p \in Peers |-> NewTask]
    /\ wlock = [p \in Peers |-> FALSE]
    /\ mapLock = 0
    /\ slave_connections = EmptyMap
    /\ store = StoreNew
    /\ now = 0
    /\ applied = <<>>
    /\ replica = [r \in Replicas |-> [state |-> "streaming", store |-> StoreNew, pos |-> 0]]
    /\ caller = NewCaller
    /\ hs = [r \in Replicas |-> StreamingNode]
    /\ client = MasterClient

(***************************************************************************)
(* Sockets.  A write to a socket whose peer is gone delivers nothing.      *)
(***************************************************************************)
Segment(bytes, kind, tag) == [bytes |-> bytes, kind |-> kind, tag |-> tag]

\* AsyncWriteExt::write_all on the write half of peer `to`.
WriteAll(out, to, seg) ==
    IF sock[to] = "open" /\ seg.bytes # <<>>
    THEN [out EXCEPT ![to] = Append(@, seg)]
    ELSE out

\* The results write_all can return: an error only when the peer is gone.
WriteResults(to, bytes) ==
    IF sock[to] = "open" \/ bytes = <<>> THEN {"ok"} ELSE {"ok", "err"}

\* The numbers of whole writes one read can return when the writes `unread`
\* (each a byte string) wait in the socket: as many as fit the buffer.
ReadSizes(unread) ==
    {n \in 1..Len(unread) : Len(Flatten(Take(unread, n))) <= BufSize}

\* The command the task of peer p is at: (segment, group) names it.
Tag(p) == [peer |-> p, seg |-> task[p].seg, grp |-> task[p].grp]

Current(p) == RetrieveContent(task[p].batch[task[p].grp])

\* The task of peer p ends: its locals are dropped.
End(p, how) == [task EXCEPT ![p] = [NewTask EXCEPT !.pc = how]]

\* The record of a write applied to the store: the command it came from, what
\* it wrote, the replica addresses its fan-out covered, and the instant.
Written(p, command, key, value, targets) ==
    [tag |-> Tag(p), command |-> command, key |-> key, value |-> value, targets |-> targets,
     at |-> now]

(***************************************************************************)
(* The peers.                                                              *)
(***************************************************************************)
\* A replica process exits: its end of the socket closes.
Close(p) ==
    /\ sock[p] = "open"
    /\ sock' = [sock EXCEPT ![p] = "closed"]
    /\ replica' = [replica EXCEPT ![p].state = "exited"]
    /\ UNCHANGED <<client, hs, caller, script, c2p, p2c, task, wlock, mapLock, slave_connections, store, now,
                   applied>>

(***************************************************************************)
(* main.rs handle_connection: one read and the parse of what it returned.  *)
(***************************************************************************)
\* AfterRead with the commands of the batch taken last to first.
AfterReadReversed(t, buf, seg, emptyOutcome) ==
    IF ~FromUtf8Ok(buf) THEN [t EXCEPT !.pc = "failed"]
    ELSE LET r == ProtocolParse(buf)
         IN  CASE r.st = "err"   -> [t EXCEPT !.pc = "failed"]
               [] r.st = "panic" -> [t EXCEPT !.pc = "panicked"]
               [] r.payloads = <<>> -> [t EXCEPT !.pc = emptyOutcome]
               [] OTHER -> [t EXCEPT !.pc = "dispatch",
                                     !.batch = [i \in DOMAIN r.payloads |->
                                                   r.payloads[Len(r.payloads) + 1 - i]],
                                     !.seg = seg, !.grp = 1]

\* The task after a read that returned buf, the first write of which was the
\* seg-th of the peer; emptyOutcome is where `payloads.len() - 1` leaves the task
\* when no payload was decoded (a panic with overflow checks, else the next read).
AfterRead(t, buf, seg, emptyOutcome) ==
    IF ~FromUtf8Ok(buf) THEN [t EXCEPT !.pc = "failed"]
    ELSE LET r == ProtocolParse(buf)
         IN  CASE r.st = "err"   -> [t EXCEPT !.pc = "failed"]
               [] r.st = "panic" -> [t EXCEPT !.pc = "panicked"]
               [] r.payloads = <<>> -> [t EXCEPT !.pc = emptyOutcome]
               [] OTHER -> [t EXCEPT !.pc = "dispatch", !.batch = r.payloads,
                                     !.seg = seg, !.grp = 1]

Read(p) ==
    /\ task[p].pc = "read"
    /\ IF c2p[p] = <<>>
       THEN /\ sock[p] = "closed"
            /\ task' = End(p, "done")
            /\ UNCHANGED c2p
       ELSE \E n \in ReadSizes(c2p[p]), emptyOutcome \in {"panicked", "read"} :
              /\ c2p' = [c2p EXCEPT ![p] = Drop(@, n)]
              /\ task' = [task EXCEPT ![p] =
                            AfterRead(@, Flatten(Take(c2p[p], n)),
                                      SentCount(p) - Len(c2p[p]) + 1, emptyOutcome)]
    /\ UNCHANGED <<client, hs, caller, script, sock, p2c, wlock, mapLock, slave_connections, store, now,
                   applied, replica>>

(***************************************************************************)
(* client.rs process_command on a Master.                                  *)
(***************************************************************************)
\* Echo, Ping, Get, Type, XAdd, Info, ReplConf, and what is no command at all.
Dispatch(p) ==
    /\ task[p].pc = "dispatch"
    /\ \E c \in {Current(p)} :
           /\ c.command \notin {"Set", "PSync"}
           /\ IF ~c.ok \/ c.command = NoCommand
              THEN /\ task' = End(p, "failed")
                   /\ UNCHANGED <<store, applied>>
              ELSE \E r \in {SimpleCommand(client.role, c.command, c.contents, store, now)} :
                       /\ task' = CASE r.st = "ok" ->
                                         [task EXCEPT ![p].pc = "reply",
                                                      ![p].response = r.response]
                                    [] r.st = "err" -> End(p, "failed")
                                    [] OTHER -> End(p, "panicked")
                       /\ store' = r.store
                       /\ applied' = IF r.st = "ok" /\ c.command = "XAdd"
                                     THEN Append(applied,
                                                 Written(p, "XAdd",
                                                         PayloadToString(c.contents.items[1]),
                                                         PayloadToString(c.contents.items[2]),
                                                         {}))
                                     ELSE applied
    /\ UNCHANGED <<client, hs, caller, script, sock, c2p, p2c, wlock, mapLock, slave_connections, now, replica>>

\* The name the client spelled the command with.
SpelledName(p) ==
    LET item == task[p].batch[task[p].grp]
    IN  IF item.t = "Array" THEN item.items[1].s ELSE item.s

\* SetBegin of a propagate that does not wait for the lock of the replica map.
SetBeginWithoutMapLock(p) ==
    /\ task[p].pc = "dispatch"
    /\ \E c \in {Current(p)} :
           /\ c.ok /\ c.command = "Set"
           /\ IF c.contents.t # "Array"
              THEN task' = End(p, "failed") /\ UNCHANGED mapLock
              ELSE IF Len(c.contents.items) < 2
              THEN task' = End(p, "panicked") /\ UNCHANGED mapLock
              ELSE IF client.role = "Slave"
              THEN task' = [task EXCEPT ![p].pc = "apply"] /\ UNCHANGED mapLock
              ELSE LET payload == SetPropagationPayload(SpelledName(p), c.contents.items)
                   IN  IF DOMAIN slave_connections = {}
                       THEN /\ task' = [task EXCEPT ![p].pc = "apply",
                                                    ![p].payload = payload]
                            /\ UNCHANGED mapLock
                       ELSE /\ mapLock' = p
                            /\ task' = [task EXCEPT ![p].pc = "propagate",
                                                    ![p].payload = payload,
                                                    ![p].targets = DOMAIN slave_connections,
                                                    ![p].pending = DOMAIN slave_connections]
    /\ UNCHANGED <<client, hs, caller, script, sock, c2p, p2c, wlock, slave_connections, store, now, applied,
                   replica>>

\* Command::Set: the arguments are taken apart; on a Master the payload is
\* built and propagate takes the lock of the replica map, on a Slave
\* process_set comes next.
SetBegin(p) ==
    /\ task[p].pc = "dispatch"
    /\ \E c \in {Current(p)} :
           /\ c.ok /\ c.command = "Set"
           /\ IF c.contents.t # "Array"
              THEN task' = End(p, "failed") /\ UNCHANGED mapLock
              ELSE IF Len(c.contents.items) < 2
              THEN task' = End(p, "panicked") /\ UNCHANGED mapLock
              ELSE IF client.role = "Slave"
              THEN task' = [task EXCEPT ![p].pc = "apply"] /\ UNCHANGED mapLock
              ELSE LET payload == SetPropagationPayload(SpelledName(p), c.contents.items)
                   IN  /\ mapLock = 0
                       /\ IF DOMAIN slave_connections = {}
                          THEN /\ task' = [task EXCEPT ![p].pc = "apply",
                                                       ![p].payload = payload]
                               /\ UNCHANGED mapLock
                          ELSE /\ mapLock' = p
                               /\ task' = [task EXCEPT ![p].pc = "propagate",
                                                       ![p].payload = payload,
                                                       ![p].targets = DOMAIN slave_connections,
                                                       ![p].pending = DOMAIN slave_connections]
    /\ UNCHANGED <<client, hs, caller, script, sock, c2p, p2c, wlock, slave_connections, store, now, applied,
                   replica>>

\* PropagateWrite of a Master whose futures end without writing.
PropagateWithoutWrite(p, a) ==
    /\ task[p].pc = "propagate"
    /\ a \in task[p].pending
    /\ ~wlock[slave_connections[a]]
    /\ IF task[p].pending = {a}
       THEN /\ task' = [task EXCEPT ![p].pc = "apply", ![p].pending = {}]
            /\ mapLock' = 0
       ELSE /\ task' = [task EXCEPT ![p].pending = @ \ {a}]
            /\ UNCHANGED mapLock
    /\ UNCHANGED <<client, hs, caller, script, sock, c2p, p2c, wlock, slave_connections, store, now,
                   applied, replica>>

\* PropagateWrite of a propagate that returned the error of a failed write
\* (try_join_all and `?`), which ends the command.
PropagateAbortOnError(p, a) ==
    /\ task[p].pc = "propagate"
    /\ a \in task[p].pending
    /\ ~wlock[slave_connections[a]]
    /\ sock[slave_connections[a]] # "stuck"
    /\ p2c' = WriteAll(p2c, slave_connections[a], Segment(task[p].payload, "fanout", Tag(p)))
    /\ IF sock[slave_connections[a]] = "closed"
       THEN /\ task' = End(p, "failed")
            /\ mapLock' = 0
       ELSE IF task[p].pending = {a}
       THEN /\ task' = [task EXCEPT ![p].pc = "apply", ![p].pending = {}]
            /\ mapLock' = 0
       ELSE /\ task' = [task EXCEPT ![p].pending = @ \ {a}]
            /\ UNCHANGED mapLock
    /\ UNCHANGED <<client, hs, caller, script, sock, c2p, wlock, slave_connections, store, now, applied, replica>>

\* PropagateWrite of a future that writes without the lock of the write half.
PropagateWriteUnlocked(p, a) ==
    /\ task[p].pc = "propagate"
    /\ a \in task[p].pending
    /\ sock[slave_connections[a]] # "stuck"
    /\ p2c' = WriteAll(p2c, slave_connections[a], Segment(task[p].payload, "fanout", Tag(p)))
    /\ IF task[p].pending = {a}
       THEN /\ task' = [task EXCEPT ![p].pc = "apply", ![p].pending = {}]
            /\ mapLock' = 0
       ELSE /\ task' = [task EXCEPT ![p].pending = @ \ {a}]
            /\ UNCHANGED mapLock
    /\ UNCHANGED <<client, hs, caller, script, sock, c2p, wlock, slave_connections, store, now, applied, replica>>

\* RedisClient::propagate: one of the joined futures locks the write half of a
\* replica and writes the payload; its result is dropped.  The last one to
\* finish ends propagate, which releases the lock of the map.
PropagateWrite(p, a) ==
    /\ task[p].pc = "propagate"
    /\ a \in task[p].pending
    /\ ~wlock[slave_connections[a]]
    /\ sock[slave_connections[a]] # "stuck"
    /\ p2c' = WriteAll(p2c, slave_connections[a], Segment(task[p].payload, "fanout", Tag(p)))
    /\ IF task[p].pending = {a}
       THEN /\ task' = [task EXCEPT ![p].pc = "apply", ![p].pending = {}]
            /\ mapLock' = 0
       ELSE /\ task' = [task EXCEPT ![p].pending = @ \ {a}]
            /\ UNCHANGED mapLock
    /\ UNCHANGED <<client, hs, caller, script, sock, c2p, wlock, slave_connections, store, now, applied, replica>>

\* Command::Set: process_set on the primary's own store.
Apply(p) ==
    /\ task[p].pc = "apply"
    /\ \E x \in {Current(p).contents.items} : \E r \in {ProcessSet(store, x, now)} :
           IF r.ok
           THEN /\ store' = r.store
                /\ applied' = Append(applied,
                                     Written(p, "Set", PayloadToString(x[1]),
                                             PayloadToString(x[2]), task[p].targets))
                /\ task' = [task EXCEPT ![p].pc = "reply", ![p].response = OkReply,
                                         ![p].payload = <<>>]
           ELSE /\ task' = End(p, "failed")
                /\ UNCHANGED <<store, applied>>
    /\ UNCHANGED <<client, hs, caller, script, sock, c2p, p2c, wlock, mapLock, slave_connections, now, replica>>

\* PsyncLine of a Master that enters the peer in the replica map as soon as
\* the line is written and does not keep the lock of the write half.
PsyncLineEnrolling(p) ==
    /\ task[p].pc = "dispatch"
    /\ \E c \in {Current(p)} : c.ok /\ c.command = "PSync"
    /\ ~wlock[p]
    /\ \E res \in WriteResults(p, RolePsync(client.role)) :
         IF res = "ok"
         THEN /\ p2c' = WriteAll(p2c, p, Segment(RolePsync(client.role), "fullresync", Tag(p)))
              /\ slave_connections' =
                    IF client.role = "Master" /\ mapLock = 0
                    THEN [a \in (DOMAIN slave_connections) \cup {Addr(p)} |->
                             IF a = Addr(p) THEN p ELSE slave_connections[a]]
                    ELSE slave_connections
              /\ task' = [task EXCEPT ![p].pc = "psync_rdb"]
         ELSE /\ task' = End(p, "failed")
              /\ UNCHANGED <<p2c, slave_connections>>
    /\ UNCHANGED <<client, hs, caller, script, sock, c2p, wlock, mapLock, store, now, applied, replica>>

\* Command::PSync: the write half is locked and role.psync() written.
PsyncLine(p) ==
    /\ task[p].pc = "dispatch"
    /\ \E c \in {Current(p)} : c.ok /\ c.command = "PSync"
    /\ ~wlock[p]
    /\ \E res \in WriteResults(p, RolePsync(client.role)) :
         IF res = "ok"
         THEN /\ p2c' = WriteAll(p2c, p, Segment(RolePsync(client.role), "fullresync", Tag(p)))
              /\ wlock' = [wlock EXCEPT ![p] = TRUE]
              /\ task' = [task EXCEPT ![p].pc = "psync_rdb"]
         ELSE /\ task' = End(p, "failed")
              /\ UNCHANGED <<p2c, wlock>>
    /\ UNCHANGED <<client, hs, caller, script, sock, c2p, mapLock, slave_connections, store, now, applied, replica>>

\* Command::PSync: the RDB file is written under the same lock.
PsyncRdb(p) ==
    /\ task[p].pc = "psync_rdb"
    /\ \E res \in WriteResults(p, GetEmptyRdb) :
         IF res = "ok"
         THEN /\ p2c' = WriteAll(p2c, p, Segment(GetEmptyRdb, "rdb", Tag(p)))
              /\ task' = [task EXCEPT ![p].pc = "psync_enrol"]
              /\ UNCHANGED wlock
         ELSE /\ task' = End(p, "failed")
              /\ wlock' = [wlock EXCEPT ![p] = FALSE]
              /\ UNCHANGED p2c
    /\ UNCHANGED <<client, hs, caller, script, sock, c2p, mapLock, slave_connections, store, now, applied, replica>>

\* Command::PSync.  Master arm: the write half is inserted under the peer's
\* address.  Slave arm: the write half of the peer becomes master_stream_w.
\* The arm ends, which releases the lock of the write half.
PsyncEnrol(p) ==
    /\ task[p].pc = "psync_enrol"
    /\ IF client.role = "Master"
       THEN /\ mapLock = 0
            /\ slave_connections' =
                  [a \in (DOMAIN slave_connections) \cup {Addr(p)} |->
                      IF a = Addr(p) THEN p ELSE slave_connections[a]]
            /\ UNCHANGED client
       ELSE /\ client' = [client EXCEPT !.master_stream_w = Some(p)]
            /\ UNCHANGED slave_connections
    /\ wlock' = [wlock EXCEPT ![p] = FALSE]
    /\ task' = [task EXCEPT ![p].pc = "reply", ![p].response = <<>>]
    /\ UNCHANGED <<hs, caller, script, sock, c2p, p2c, mapLock, store, now, applied, replica>>

\* Reply of a process_command that wrote the response whatever should_reply.
ReplyEvery(p) ==
    /\ task[p].pc = "reply"
    /\ LET last == task[p].grp = Len(task[p].batch)
           next == IF last THEN [task EXCEPT ![p] = NewTask]
                   ELSE [task EXCEPT ![p].pc = "dispatch", ![p].grp = @ + 1,
                                     ![p].targets = {}]
       IN  /\ ~wlock[p]
           /\ \E res \in WriteResults(p, task[p].response) :
                /\ p2c' = WriteAll(p2c, p, Segment(task[p].response, "reply", Tag(p)))
                /\ task' = IF res = "ok" THEN next ELSE End(p, "failed")
    /\ UNCHANGED <<client, hs, caller, script, sock, c2p, wlock, mapLock, slave_connections, store, now, applied,
                   replica>>

\* The end of process_command: the response is written when should_reply, and
\* handle_connection goes on to the next command of the batch or the next read.
Reply(p) ==
    /\ task[p].pc = "reply"
    /\ LET last == task[p].grp = Len(task[p].batch)
           next == IF last THEN [task EXCEPT ![p] = NewTask]
                   ELSE [task EXCEPT ![p].pc = "dispatch", ![p].grp = @ + 1,
                                     ![p].targets = {}]
       IN  IF last
           THEN /\ ~wlock[p]
                /\ \E res \in WriteResults(p, task[p].response) :
                     /\ p2c' = WriteAll(p2c, p, Segment(task[p].response, "reply", Tag(p)))
                     /\ task' = IF res = "ok" THEN next ELSE End(p, "failed")
           ELSE /\ task' = next
                /\ UNCHANGED p2c
    /\ UNCHANGED <<client, hs, caller, script, sock, c2p, wlock, mapLock, slave_connections, store, now, applied,
                   replica>>

(***************************************************************************)
(* main.rs, Slave arm of the loop, and handle_propagation_from_master.     *)
(***************************************************************************)
\* The loop over the payloads: [st |-> "ok" | "err" | "panic", store].  Whatever
\* the command, its arguments are treated as those of a SET.
RECURSIVE PropagationLoop(_, _, _)
PropagationLoop(st, payloads, now_) ==
    IF payloads = <<>> THEN [st |-> "ok", store |-> st]
    ELSE LET c == RetrieveContent(Head(payloads))
         IN  IF ~c.ok \/ c.command = NoCommand \/ c.contents.t # "Array"
             THEN [st |-> "err", store |-> st]
             ELSE IF Len(c.contents.items) < 2 THEN [st |-> "panic", store |-> st]
             ELSE LET r == ProcessSet(st, c.contents.items, now_)
                  IN  IF ~r.ok THEN [st |-> "err", store |-> st]
                      ELSE PropagationLoop(r.store, Tail(payloads), now_)

\* handle_propagation_from_master on the bytes of one read.
HandlePropagationFromMaster(st, buf, now_) ==
    LET r == ProtocolParse(buf)
    IN  IF r.st = "ok" THEN PropagationLoop(st, r.payloads, now_)
        ELSE [st |-> r.st, store |-> st]

\* One read of the primary's socket by the replica's loop and what follows it:
\* the replica process after the read returned buf.
AfterMasterRead(rep, buf, now_) ==
    IF IsPsyncIgnore(buf) THEN rep
    ELSE IF ~FromUtf8Ok(buf) THEN [rep EXCEPT !.state = "panicked"]
    ELSE LET r == HandlePropagationFromMaster(rep.store, buf, now_)
         IN  IF r.st = "panic" THEN [rep EXCEPT !.state = "panicked"]
             ELSE [rep EXCEPT !.store = r.store]

\* The writes of the primary the replica has not read yet.
Unread(r) ==
    [i \in 1..(Len(p2c[r]) - replica[r].pos) |-> p2c[r][replica[r].pos + i].bytes]

\* The primary has nothing left to do but wait for bytes.
PrimaryIdle ==
    \A p \in Peers : \/ task[p].pc \in {"done", "failed", "panicked"}
                     \/ task[p].pc = "read" /\ c2p[p] = <<>>

\* The reads are scheduled once the primary is idle: a read returns any number
\* of the buffered writes, so every way the stream can be cut at the ends of
\* writes is still produced.
ReplicaRead(r) ==
    /\ replica[r].state = "streaming"
    /\ PrimaryIdle
    /\ \E n \in ReadSizes(Unread(r)) :
         LET buf == Flatten(Take(Unread(r), n))
             rep == AfterMasterRead([replica[r] EXCEPT !.pos = @ + n], buf, now)
         IN  /\ replica' = [replica EXCEPT ![r] = rep]
             /\ sock' = IF rep.state = "panicked" THEN [sock EXCEPT ![r] = "closed"] ELSE sock
    /\ UNCHANGED <<client, hs, caller, script, c2p, p2c, task, wlock, mapLock, slave_connections, store, now,
                   applied>>

(***************************************************************************)
(* The specification of the primary with its peers.                        *)
(***************************************************************************)
Next ==
    \/ \E r \in Replicas : Close(r)
    \/ \E p \in Peers : Read(p)
    \/ \E p \in Peers : Dispatch(p)
    \/ \E p \in Peers : SetBegin(p)
    \/ \E p \in Peers : \E a \in DOMAIN slave_connections : PropagateWrite(p, a)
    \/ \E p \in Peers : Apply(p)
    \/ \E p \in Peers : PsyncLine(p)
    \/ \E p \in Peers : PsyncRdb(p)
    \/ \E p \in Peers : PsyncEnrol(p)
    \/ \E p \in Peers : Reply(p)
    \/ \E r \in Replicas : ReplicaRead(r)

Spec == Init /\ [][Next]_vars

(***************************************************************************)
(* The specification of the store alone: one caller makes the calls of     *)
(* KeyValueStore one after the other while the clock advances.             *)
(***************************************************************************)
\* The number of set calls the caller makes.
MaxSets == 2

\* The last instant of the clock, in milliseconds.
MaxTime == 3

\* The longest expiry the caller asks for, in milliseconds.
MaxExpiry == 2

StoreKeys == {KeyA, KeyB}

StoreValues == {Val1, <<50, 50>>}

StoreExpiries == {None} \cup {Some(m) : m \in 0..MaxExpiry}

StoreInit ==
    /\ Init
    /\ \A p \in Clients : script[p] = <<>>

\* What the caller remembers of set(key, value, expiry_ms) at the instant now_:
\* the call, how many sets of the key came before it, whether one of them
\* carried an expiry, the instants at which those expiries fall due, and
\* whether get has been called since.
Remember(last, key, value, expiry_ms, now_) ==
    LET known == key \in DOMAIN last
        entry == [value  |-> value,
                  expiry |-> expiry_ms,
                  at     |-> now_,
                  n      |-> IF known THEN last[key].n + 1 ELSE 1,
                  prior  |-> known /\ (last[key].expiry.some \/ last[key].prior),
                  got    |-> FALSE,
                  due    |-> IF ~known THEN {}
                             ELSE last[key].due
                                      \cup (IF last[key].expiry.some
                                            THEN {last[key].at + last[key].expiry.v}
                                            ELSE {})]
    IN  [k \in (DOMAIN last) \cup {key} |-> IF k = key THEN entry ELSE last[k]]

\* Utc::now() advances.
Tick ==
    /\ now < MaxTime
    /\ now' = now + 1
    /\ UNCHANGED <<client, hs, caller, script, sock, c2p, p2c, task, wlock, mapLock, slave_connections,
                   store, applied, replica>>

\* KeyValueStore::set with a string value.
DoSet(key, value, expiry_ms) ==
    /\ caller.sets < MaxSets
    /\ store' = StoreSet(store, key, RString(value), expiry_ms, now)
    /\ caller' = [sets |-> caller.sets + 1, op |-> "set", key |-> key, time |-> now,
                  resp |-> OkReply,
                  last |-> Remember(caller.last, key, value, expiry_ms, now)]
    /\ UNCHANGED <<client, hs, script, sock, c2p, p2c, task, wlock, mapLock, slave_connections, now,
                   applied, replica>>

\* KeyValueStore::get
DoGet(key) ==
    /\ store' = StoreGet(store, key, now).store
    /\ caller' = [caller EXCEPT !.op = "get", !.key = key, !.time = now,
                                !.resp = StoreGet(store, key, now).resp,
                                !.last = [k \in DOMAIN caller.last |->
                                             [caller.last[k] EXCEPT !.got = TRUE]]]
    /\ UNCHANGED <<client, hs, script, sock, c2p, p2c, task, wlock, mapLock, slave_connections, now,
                   applied, replica>>

\* get_type that runs the sweep of get first.
DoGetTypeSweeping(key) ==
    /\ store' = CleanExpiries(store, now)
    /\ caller' = [caller EXCEPT !.op = "type", !.key = key, !.time = now,
                                !.resp = GetType(CleanExpiries(store, now), key)]
    /\ UNCHANGED <<client, hs, script, sock, c2p, p2c, task, wlock, mapLock, slave_connections, now,
                   applied, replica>>

\* KeyValueStore::get_type
DoGetType(key) ==
    /\ caller' = [caller EXCEPT !.op = "type", !.key = key, !.time = now,
                                !.resp = GetType(store, key)]
    /\ UNCHANGED <<client, hs, script, sock, c2p, p2c, task, wlock, mapLock, slave_connections, now,
                   applied, replica, store>>

StoreNext ==
    \/ Tick
    \/ \E key \in StoreKeys, value \in StoreValues, expiry_ms \in StoreExpiries :
          DoSet(key, value, expiry_ms)
    \/ \E key \in StoreKeys : DoGet(key)
    \/ \E key \in StoreKeys : DoGetType(key)

SpecStore == StoreInit /\ [][StoreNext]_vars

(***************************************************************************)
(* The specification of the handshake: behind each replica peer a          *)
(* RedisClient calls handshake() while the primary serves what arrives.    *)
(***************************************************************************)
HandshakeInit ==
    /\ script = [p \in Clients |-> <<>>]
    /\ sock = [p \in Peers |-> "open"]
    /\ c2p = [p \in Peers |-> <<>>]
    /\ p2c = [p \in Peers |-> <<>>]
    /\ task = [p \in Peers |-> NewTask]
    /\ wlock = [p \in Peers |-> FALSE]
    /\ mapLock = 0
    /\ slave_connections = EmptyMap
    /\ store = StoreNew
    /\ now = 0
    /\ applied = <<>>
    /\ replica = [r \in Replicas |-> [state |-> "handshaking", store |-> StoreNew, pos |-> 0]]
    /\ caller = NewCaller
    /\ hs \in [Replicas -> {NewNode("Slave"), NewNode("Master")}]
    /\ client = MasterClient

\* handshake(): establish_stream, with what the dial comes to.
HsEstablish(r) ==
    /\ hs[r].pc = "dialing"
    /\ \E outcome \in DialOutcomes :
          hs' = [hs EXCEPT ![r] = EstablishStream(@, outcome)]
    /\ UNCHANGED <<client, caller, script, sock, c2p, p2c, task, wlock, mapLock, slave_connections,
                   store, now, applied, replica>>

\* The connection to the primary is reset while the handshake is under way.
HsReset(r) ==
    /\ hs[r].pc = "sending"
    /\ hs[r].link = "up"
    /\ hs' = [hs EXCEPT ![r].link = "reset"]
    /\ UNCHANGED <<client, caller, script, sock, c2p, p2c, task, wlock, mapLock, slave_connections,
                   store, now, applied, replica>>

\* handshake(): one turn of the loop over the messages; write_all fails on a
\* connection that was reset.  send_message returns after its sleep, whether
\* or not the primary has answered.
HsSend(r) ==
    /\ hs[r].pc = "sending"
    /\ LET res == IF hs[r].link = "up" THEN "ok" ELSE "err"
           node == SendMessage(hs[r], res)
       IN  /\ hs' = [hs EXCEPT ![r] = node]
           /\ c2p' = IF res = "ok"
                     THEN [c2p EXCEPT ![r] = Append(@, node.sent[Len(node.sent)])]
                     ELSE c2p
    /\ UNCHANGED <<client, caller, script, sock, p2c, task, wlock, mapLock, slave_connections,
                   store, now, applied, replica>>

HandshakeNext ==
    \/ \E r \in Replicas : HsEstablish(r)
    \/ \E r \in Replicas : HsReset(r)
    \/ \E r \in Replicas : HsSend(r)
    \/ \E p \in Peers : Read(p)
    \/ \E p \in Peers : Dispatch(p)
    \/ \E p \in Peers : PsyncLine(p)
    \/ \E p \in Peers : PsyncRdb(p)
    \/ \E p \in Peers : PsyncEnrol(p)
    \/ \E p \in Peers : Reply(p)

SpecHandshake == HandshakeInit /\ [][HandshakeNext]_vars

(***************************************************************************)
(* The specification of the fan-out: a client may enrol with PSYNC like a  *)
(* replica does, a replica may exit, and a replica may stop reading for    *)
(* good, after which a write_all to it never completes.  The tasks of the  *)
(* primary are tokio tasks: one that can run does run.                     *)
(***************************************************************************)
MaxFanoutCommands == 1

\* Client 1 sends SET a 1; the other clients send SET a 2 or PSYNC ? -1.
FanoutMenu(p) ==
    IF p = 1
    THEN { << <<115, 101, 116>>, KeyA, Val1 >> }
    ELSE { << <<83, 69, 84>>, KeyA, Val2 >>,
           << <<80, 83, 89, 78, 67>>, <<63>>, <<45, 49>> >> }

FanoutInit ==
    /\ script \in [Clients -> UNION {[1..n -> UNION {FanoutMenu(p) : p \in Clients}] :
                                        n \in 0..MaxFanoutCommands}]
    /\ \A p \in Clients : Range(script[p]) \subseteq FanoutMenu(p)
    /\ sock = [p \in Peers |-> "open"]
    /\ c2p = [p \in Peers |-> PeerWrites(p)]
    /\ p2c = [p \in Peers |-> <<>>]
    /\ task = [p \in Peers |-> NewTask]
    /\ wlock = [p \in Peers |-> FALSE]
    /\ mapLock = 0
    /\ slave_connections = EmptyMap
    /\ store = StoreNew
    /\ now = 0
    /\ applied = <<>>
    /\ replica = [r \in Replicas |-> [state |-> "streaming", store |-> StoreNew, pos |-> 0]]
    /\ caller = NewCaller
    /\ hs = [r \in Replicas |-> StreamingNode]
    /\ client = MasterClient

\* A registered replica stops reading with its receive window full: from now
\* on a write_all to its socket stays pending.
Stall(r) ==
    /\ Addr(r) \in DOMAIN slave_connections
    /\ sock[r] = "open"
    /\ replica[r].state = "streaming"
    /\ sock' = [sock EXCEPT ![r] = "stuck"]
    /\ replica' = [replica EXCEPT ![r].state = "stalled"]
    /\ UNCHANGED <<client, hs, caller, script, c2p, p2c, task, wlock, mapLock, slave_connections, store, now,
                   applied>>

\* A step of process_command for the command the task of peer p is at.
Serve(p) ==
    \/ Dispatch(p)
    \/ SetBegin(p)
    \/ \E a \in DOMAIN slave_connections : PropagateWrite(p, a)
    \/ Apply(p)
    \/ PsyncLine(p)
    \/ PsyncRdb(p)
    \/ PsyncEnrol(p)
    \/ Reply(p)

FanoutNext ==
    \/ \E r \in Replicas : Close(r)
    \/ \E r \in Replicas : Stall(r)
    \/ \E p \in Peers : Read(p)
    \/ \E p \in Peers : Serve(p)
    \/ \E r \in Replicas : ReplicaRead(r)

\* A command that was decoded is carried on with whenever it can be; nothing
\* is assumed about when the bytes of a peer arrive.
SpecFanout ==
    /\ FanoutInit
    /\ [][FanoutNext]_vars
    /\ \A p \in Peers : WF_vars(Serve(p))

(***************************************************************************)
(* A node of either role and clients that write what they like: commands  *)
(* a role has no arm for, arguments that are missing or are no numbers,    *)
(* bytes that are not RESP.  No replica has dialled yet.  Here a script    *)
(* holds the bytes of each write.                                          *)
(***************************************************************************)
MaxServeCommands == 2

\* The writes of the clients, by what is the matter with them.
ServeWrites ==
    [psync       |-> PsyncSlave,                                     \* PSYNC ? -1
     replconf    |-> HandshakeMessages[3],                           \* REPLCONF capa psync2
     set         |-> ClientBytes(<< <<83, 69, 84>>, KeyA, Val1 >>),  \* SET a 1
     set_px      |-> ClientBytes(<< <<83, 69, 84>>, KeyA, Val1, <<80, 88>> >>),
     set_px_abc  |-> ClientBytes(<< <<83, 69, 84>>, KeyA, Val1, <<80, 88>>,
                                    <<97, 98, 99>> >>),
     get         |-> ClientBytes(<< <<71, 69, 84>> >>),              \* GET
     bad_length  |-> <<36, 120>> \o DELIMITER,                       \* "$x\r\n"
     bad_type    |-> <<33, 97>> \o DELIMITER,                        \* "!a\r\n"
     \* SET a 1 without its last three bytes
     truncated   |-> LET x == ClientBytes(<< <<83, 69, 84>>, KeyA, Val1 >>)
                     IN  Take(x, Len(x) - 3),
     no_command  |-> OkReply,                                        \* "+OK\r\n"
     empty_array |-> <<42, 48>> \o DELIMITER,                        \* "*0\r\n"
     \* SET a 1 with "xx" where the last "\r\n" belongs
     bad_end     |-> LET x == ClientBytes(<< <<83, 69, 84>>, KeyA, Val1 >>)
                     IN  Take(x, Len(x) - 2) \o <<120, 120>>,
     other       |-> ClientBytes(<< <<83, 69, 84>>, KeyB, Val2 >>)]  \* SET b 2

ServeMenu(p) ==
    IF p = 1 THEN {ServeWrites[f] : f \in (DOMAIN ServeWrites) \ {"other"}}
    ELSE {ServeWrites.other, ServeWrites.psync}

ServeInit ==
    /\ script \in [Clients -> UNION {[1..n -> UNION {ServeMenu(p) : p \in Clients}] :
                                        n \in 0..MaxServeCommands}]
    /\ \A p \in Clients : Range(script[p]) \subseteq ServeMenu(p)
    /\ sock = [p \in Peers |-> "open"]
    /\ c2p = [p \in Peers |-> IF p \in Clients THEN script[p] ELSE <<>>]
    /\ p2c = [p \in Peers |-> <<>>]
    /\ task = [p \in Peers |-> NewTask]
    /\ wlock = [p \in Peers |-> FALSE]
    /\ mapLock = 0
    /\ slave_connections = EmptyMap
    /\ store = StoreNew
    /\ now = 0
    /\ applied = <<>>
    /\ replica = [r \in Replicas |-> [state |-> "handshaking", store |-> StoreNew, pos |-> 0]]
    /\ caller = NewCaller
    /\ hs = [r \in Replicas |-> NewNode("Slave")]
    /\ client \in {MasterClient, SlaveClient}

ServeNext ==
    \E p \in Clients :
        \/ Read(p)
        \/ Dispatch(p)
        \/ SetBegin(p)
        \/ \E a \in DOMAIN slave_connections : PropagateWrite(p, a)
        \/ Apply(p)
        \/ PsyncLine(p)
        \/ PsyncRdb(p)
        \/ PsyncEnrol(p)
        \/ Reply(p)

SpecServe == ServeInit /\ [][ServeNext]_vars

(***************************************************************************)
(* The codec and the command table on their own: a caller that encodes a   *)
(* payload and decodes the bytes, or parses a name, renders the command    *)
(* and parses the rendering.  Of the caller, key is the input, last the    *)
(* text the last encode or render gave, resp the last result.              *)
(***************************************************************************)
\* The longest string of a payload, but for one of ten bytes.
MaxStringLen == 2

\* The longest array.
MaxArrayLen == 2

\* The payloads the caller encodes: simple and bulk strings over "\r", "\n"
\* and "a", one string whose length takes two digits, and arrays (empty,
\* flat, nested) of short elements.
CodecPayloads ==
    LET strings == UNION {[1..n -> {13, 10, 97}] : n \in 0..MaxStringLen}
                       \cup {[i \in 1..10 |-> 97]}
        short == {<<>>, <<97>>, DELIMITER}
        elements == {SimpleString(x) : x \in short} \cup {BulkString(x) : x \in short}
                        \cup {Array(<<>>), Array(<<BulkString(<<97>>)>>)}
    IN  {SimpleString(x) : x \in strings} \cup {BulkString(x) : x \in strings}
            \cup {Array(items) : items \in UNION {[1..n -> elements] : n \in 0..MaxArrayLen}}

\* Every way of writing a name in lower and upper case letters.
RECURSIVE Spellings(_)
Spellings(name) ==
    IF name = <<>> THEN {<<>>}
    ELSE {<<h>> \o t : h \in {name[1], name[1] - 32}, t \in Spellings(Tail(name))}

CodecInit ==
    /\ script = [p \in Clients |-> <<>>]
    /\ sock = [p \in Peers |-> "open"]
    /\ c2p = [p \in Peers |-> <<>>]
    /\ p2c = [p \in Peers |-> <<>>]
    /\ task = [p \in Peers |-> NewTask]
    /\ wlock = [p \in Peers |-> FALSE]
    /\ mapLock = 0
    /\ slave_connections = EmptyMap
    /\ store = StoreNew
    /\ now = 0
    /\ applied = <<>>
    /\ replica = [r \in Replicas |-> [state |-> "handshaking", store |-> StoreNew, pos |-> 0]]
    /\ hs = [r \in Replicas |-> NewNode("Slave")]
    /\ client = MasterClient
    /\ \/ \E p \in CodecPayloads :
             caller = [NewCaller EXCEPT !.op = "payload", !.key = p, !.last = <<>>]
       \/ \E c \in DOMAIN CommandNames : \E s \in Spellings(CommandNames[c]) :
             caller = [NewCaller EXCEPT !.op = "name", !.key = s, !.last = <<>>]

\* payload.redis_encode()
Encode ==
    /\ caller.op = "payload"
    /\ caller' = [caller EXCEPT !.op = "encode", !.last = RedisEncode(caller.key)]
    /\ UNCHANGED <<client, hs, script, sock, c2p, p2c, task, wlock, mapLock, slave_connections,
                   store, now, applied, replica>>

\* Payload::from_char on the bytes of the encoding
Decode ==
    /\ caller.op = "encode"
    /\ caller' = [caller EXCEPT !.op = "decode", !.resp = FromChar(caller.last)]
    /\ UNCHANGED <<client, hs, script, sock, c2p, p2c, task, wlock, mapLock, slave_connections,
                   store, now, applied, replica>>

\* Command::parse, of the name or of the rendering
Parse ==
    \/ /\ caller.op = "name"
       /\ caller' = [caller EXCEPT !.op = "parse", !.resp = CommandParse(caller.key)]
       /\ UNCHANGED <<client, hs, script, sock, c2p, p2c, task, wlock, mapLock,
                      slave_connections, store, now, applied, replica>>
    \/ /\ caller.op = "render"
       /\ caller' = [caller EXCEPT !.op = "reparse", !.resp = CommandParse(caller.last)]
       /\ UNCHANGED <<client, hs, script, sock, c2p, p2c, task, wlock, mapLock,
                      slave_connections, store, now, applied, replica>>

\* command.to_string()
Render ==
    /\ caller.op = "parse"
    /\ caller.resp # NoCommand
    /\ caller' = [caller EXCEPT !.op = "render", !.last = CommandDisplay[caller.resp]]
    /\ UNCHANGED <<client, hs, script, sock, c2p, p2c, task, wlock, mapLock, slave_connections,
                   store, now, applied, replica>>

\* Payload::retrieve_content of the array of the name and one argument, which
\* is what process_command is called with.
Retrieve ==
    /\ caller.op = "name"
    /\ caller' = [caller EXCEPT !.op = "retrieve",
                                !.resp = RetrieveContent(
                                             BuildBulkStringArray(<<caller.key, KeyA>>))]
    /\ UNCHANGED <<client, hs, script, sock, c2p, p2c, task, wlock, mapLock, slave_connections,
                   store, now, applied, replica>>

CodecNext ==
    \/ Encode
    \/ Decode
    \/ Parse
    \/ Render
    \/ Retrieve

SpecCodec == CodecInit /\ [][CodecNext]_vars

(***************************************************************************)
(* What the properties speak of.                                           *)
(***************************************************************************)
\* "set"
SetName == <<115, 101, 116>>

\* The SETs a client wrote in one array, in order: [key, value].
SetsIn(cmd) ==
    LET at == SelectSeq([i \in DOMAIN cmd |-> i],
                        LAMBDA i : ToLower(cmd[i]) = SetName /\ i + 2 <= Len(cmd))
    IN  [n \in DOMAIN at |-> [key |-> cmd[at[n] + 1], value |-> cmd[at[n] + 2]]]

\* The SETs client p sends, in the order it sends them.
SentSets(p) == Flatten([i \in DOMAIN script[p] |-> SetsIn(script[p][i])])

\* The command a tag names, as its client spelled it: the grp-th command of
\* the seg-th array the client wrote.
SentOf(tag) ==
    LET cmd == script[tag.peer][tag.seg]
        names == {i \in DOMAIN cmd : ToLower(cmd[i]) \in Range(CommandNames)}
        i == CHOOSE j \in names : Cardinality({k \in names : k <= j}) = tag.grp
    IN  [name |-> cmd[i], key |-> cmd[i + 1], value |-> cmd[i + 2]]

\* The SETs of client p the primary applied to its store, in order.
AppliedSets(p) ==
    LET es == SelectSeq(applied, LAMBDA e : e.tag.peer = p /\ e.command = "Set")
    IN  [n \in DOMAIN es |-> [key |-> es[n].key, value |-> es[n].value]]

\* The bytes written to replica r for the SETs of client p, in order.
FannedOut(r, p) ==
    LET segs == SelectSeq(p2c[r], LAMBDA g : g.kind = "fanout" /\ g.tag.peer = p)
    IN  [n \in DOMAIN segs |-> segs[n].bytes]

\* "*3\r\n$3\r\nSET\r\n$<len k>\r\nk\r\n$<len v>\r\nv\r\n", for k and v shorter
\* than ten bytes
Canonical(k, v) ==
    <<42, 51, 13, 10, 36, 51, 13, 10, 83, 69, 84, 13, 10>>
        \o <<36, 48 + Len(k), 13, 10>> \o k \o <<13, 10>>
        \o <<36, 48 + Len(v), 13, 10>> \o v \o <<13, 10>>

RECURSIVE IsSubseq(_, _)
IsSubseq(a, b) ==
    IF a = <<>> THEN TRUE
    ELSE IF b = <<>> THEN FALSE
    ELSE IF Head(a) = Head(b) THEN IsSubseq(Tail(a), Tail(b))
    ELSE IsSubseq(a, Tail(b))

\* The places of the fan-out writes for the command tag in the socket of r.
FanoutAt(r, tag) == {i \in DOMAIN p2c[r] : p2c[r][i].kind = "fanout" /\ p2c[r][i].tag = tag}

Registered(r) == Addr(r) \in DOMAIN slave_connections

\* Replica r runs, its connection is up, and it has read all the primary wrote.
Ingested(r) ==
    /\ replica[r].state = "streaming"
    /\ sock[r] = "open"
    /\ replica[r].pos = Len(p2c[r])

(***************************************************************************)
(* C1.  Replicas converge on the primary's mapping.                        *)
(***************************************************************************)
\* Every write the primary applied is a SET that its client sent as an array of
\* its own (SET, key, value), the SETs are on distinct keys, and each of them
\* was written to the open socket of replica r.
DistinctSetsReached(r) ==
    /\ applied # <<>>
    /\ \A i \in DOMAIN applied :
          /\ applied[i].command = "Set"
          /\ Len(script[applied[i].tag.peer][applied[i].tag.seg]) = 3
          /\ FanoutAt(r, applied[i].tag) # {}
    /\ \A i, j \in DOMAIN applied : i # j => applied[i].key # applied[j].key

\* C1: once the primary has applied SETs on distinct keys, each of them fanned
\* out to a replica whose connection is up, and the replica has ingested all
\* that was written to it, the replica's store holds the primary's mapping.
C1_ReplicaHoldsPrimaryMapping ==
    \A r \in Replicas :
        (PrimaryIdle /\ Ingested(r) /\ DistinctSetsReached(r))
            => replica[r].store.data = store.data

(***************************************************************************)
(* C2.  Two clients that set the same key.                                 *)
(***************************************************************************)
\* C2: when two clients SET the same key, the order in which the primary
\* applies the two writes is the order in which a replica is sent them.
C2_AppliedOrderIsFanoutOrder ==
    \A r \in Replicas : \A i, j \in DOMAIN applied :
        (/\ i < j
         /\ applied[i].command = "Set" /\ applied[j].command = "Set"
         /\ applied[i].tag.peer # applied[j].tag.peer
         /\ applied[i].key = applied[j].key
         /\ FanoutAt(r, applied[i].tag) # {} /\ FanoutAt(r, applied[j].tag) # {})
            => \A m \in FanoutAt(r, applied[i].tag), n \in FanoutAt(r, applied[j].tag) : m < n

(***************************************************************************)
(* C3.  The SETs of one connection.                                        *)
(***************************************************************************)
\* C3: the SETs of one client connection are applied to the primary's store in
\* the order the client sent them, and every replica is sent them in that
\* same order.
C3_OneConnectionInOrder ==
    \A p \in Clients :
        /\ IsSubseq(AppliedSets(p), SentSets(p))
        /\ \A r \in Replicas :
              IsSubseq(FannedOut(r, p),
                       [n \in DOMAIN SentSets(p) |->
                           Canonical(SentSets(p)[n].key, SentSets(p)[n].value)])

\* Two SETs of one client on different keys were applied and fanned out.
C3_Witness ==
    \E p \in Clients, r \in Replicas :
        /\ Len(AppliedSets(p)) = 2
        /\ AppliedSets(p)[1] # AppliedSets(p)[2]
        /\ Len(FannedOut(r, p)) = 2

(***************************************************************************)
(* C4.  Fan-out, then the store, then the reply.                           *)
(***************************************************************************)
\* "+OK\r\n"
OkBytes == <<43, 79, 75, 13, 10>>

\* The SETs whose +OK has been written to client p.
Acknowledged(p) ==
    {e \in Range(applied) :
        /\ e.command = "Set" /\ e.tag.peer = p
        /\ \E i \in DOMAIN p2c[p] : /\ p2c[p][i].kind = "reply"
                                    /\ p2c[p][i].tag = e.tag
                                    /\ p2c[p][i].bytes = OkBytes}

\* The replicas a fan-out covered whose connections are up.
Covered(e) == {r \in Replicas : Addr(r) \in e.targets /\ sock[r] = "open"}

\* C4, as stated: when the +OK of a SET is about to be written to the client,
\* every replica that is attached then has the propagated bytes of the SET.
C4_NoAttachedReplicaBehindAtOk ==
    \A p \in Clients :
        (/\ task[p].pc = "reply" /\ task[p].grp = Len(task[p].batch)
         /\ Current(p).command = "Set")
            => \A r \in Replicas :
                  (Registered(r) /\ sock[r] = "open") => FanoutAt(r, Tag(p)) # {}

\* C4, amended: the store is not mutated by a SET while its fan-out is under
\* way, the +OK of a SET is written only after the SET was applied, and once
\* a SET is applied every replica that was registered when its fan-out began,
\* and whose connection is up, has been written the bytes of the SET.
C4_FanoutThenStoreThenOk ==
    /\ \A p \in Peers :
          task[p].pc = "propagate" => \A e \in Range(applied) : e.tag # Tag(p)
    /\ \A p \in Clients : \A i \in DOMAIN p2c[p] :
          (p2c[p][i].kind = "reply" /\ p2c[p][i].bytes = OkBytes)
              => \E e \in Range(applied) : e.command = "Set" /\ e.tag = p2c[p][i].tag
    /\ \A e \in Range(applied) :
          e.command = "Set" => \A r \in Covered(e) : FanoutAt(r, e.tag) # {}

\* A client has its +OK for a SET whose fan-out covered a replica that is up.
C4_Witness ==
    \E p \in Clients : \E e \in Acknowledged(p) :
        /\ Covered(e) # {}
        /\ \A r \in Covered(e) : FanoutAt(r, e.tag) # {}

(***************************************************************************)
(* C5.  The bytes of the fan-out.                                          *)
(***************************************************************************)
\* C5: for every SET the primary applied, each replica that was registered
\* when its fan-out began (connection up) was written exactly once, and what
\* it was written is the canonical array SET key value; whatever the case the
\* client spelled SET in, every fan-out write is the canonical array of the
\* key and the value the client sent.
C5_FanoutIsCanonical ==
    /\ \A e \in Range(applied) :
          e.command = "Set" =>
              \A r \in Covered(e) :
                  /\ Cardinality(FanoutAt(r, e.tag)) = 1
                  /\ \A i \in FanoutAt(r, e.tag) :
                        p2c[r][i].bytes = Canonical(e.key, e.value)
    /\ \A r \in Replicas : \A i \in DOMAIN p2c[r] :
          p2c[r][i].kind = "fanout" =>
              p2c[r][i].bytes = Canonical(SentOf(p2c[r][i].tag).key,
                                          SentOf(p2c[r][i].tag).value)

\* A replica was written the fan-out of an applied SET that its client did
\* not spell "SET".
C5_Witness ==
    \E e \in Range(applied) : \E r \in Covered(e) :
        /\ e.command = "Set"
        /\ SentOf(e.tag).name # <<83, 69, 84>>
        /\ FanoutAt(r, e.tag) # {}

(***************************************************************************)
(* C6.  XADD and the fan-out.                                              *)
(***************************************************************************)
\* C6: the step that applies an XADD to the primary's store leaves the XADD
\* written to every replica registered at that time whose connection is up.
C6_XAddIsFannedOut ==
    [][\A r \in Replicas :
          (/\ Len(applied') = Len(applied) + 1
           /\ applied'[Len(applied')].command = "XAdd"
           /\ Registered(r) /\ sock[r] = "open")
              => \E i \in DOMAIN p2c'[r] : /\ p2c'[r][i].kind = "fanout"
                                           /\ p2c'[r][i].tag = applied'[Len(applied')].tag]_vars

(***************************************************************************)
(* C9.  The entries of the replica map.                                    *)
(***************************************************************************)
\* C9: the replica map holds no entry for a peer whose handler has ended.
C9_NoEntryOfTerminatedConnection ==
    \A p \in Peers : task[p].pc \in {"done", "failed", "panicked"} => ~Registered(p)

(***************************************************************************)
(* C10.  PSYNC on the primary.                                             *)
(***************************************************************************)
\* "+FULLRESYNC some_id 0\r\n"
FullResyncLine ==
    <<43, 70, 85, 76, 76, 82, 69, 83, 89, 78, 67, 32, 115, 111, 109, 101, 95, 105, 100,
      32, 48, 13, 10>>

\* "$88\r\n" and the 88 bytes of the empty RDB file, nothing after them
RdbBlob == <<36, 56, 56, 13, 10>> \o EmptyRdbData

\* The places in the socket of p where the line is followed at once by the blob.
ResyncAt(p) ==
    {i \in 1..(Len(p2c[p]) - 1) :
        /\ p2c[p][i].kind = "fullresync" /\ p2c[p][i].bytes = FullResyncLine
        /\ p2c[p][i + 1].kind = "rdb"    /\ p2c[p][i + 1].bytes = RdbBlob}

C10_State ==
    /\ \A p \in Peers :
          /\ task[p].pc \in {"psync_rdb", "psync_enrol"} => ~Registered(p)
          /\ (task[p].pc = "psync_rdb" /\ sock[p] = "open")
                => /\ p2c[p] # <<>>
                   /\ p2c[p][Len(p2c[p])].bytes = FullResyncLine
          /\ (task[p].pc = "psync_enrol" /\ sock[p] = "open")
                => Len(p2c[p]) - 1 \in ResyncAt(p)
          /\ Registered(p)
                => /\ slave_connections[Addr(p)] = p
                   /\ sock[p] = "open" => ResyncAt(p) # {}
          /\ task[p].pc = "propagate" => task[p].targets = DOMAIN slave_connections
    /\ \A e \in Range(applied) : \A p \in Peers :
          (e.command = "Set" /\ Addr(p) \in e.targets /\ sock[p] = "open")
              => \E i \in ResyncAt(p) : \A j \in FanoutAt(p, e.tag) : i + 1 < j

\* C10: handling PSYNC writes the FULLRESYNC line, then the length-prefixed
\* empty RDB file with no CRLF after it, and only then enters the peer in the
\* replica map under the peer's address; the entry is never removed, and the
\* fan-out of every SET that begins after that covers the peer.
C10_PsyncThenEnrolThenFanout ==
    /\ []C10_State
    /\ [][/\ DOMAIN slave_connections \subseteq DOMAIN slave_connections'
          /\ \A p \in Peers :
                (task[p].pc = "dispatch" /\ task'[p].pc \in {"propagate", "apply"})
                    => task'[p].targets = DOMAIN slave_connections]_vars

\* A peer is registered, the line and the blob are in its socket, and a
\* fan-out write follows them.
C10_Witness ==
    \E p \in Peers :
        /\ Registered(p)
        /\ \E i \in ResyncAt(p) : /\ Len(p2c[p]) >= i + 2
                                  /\ p2c[p][i + 2].kind = "fanout"

(***************************************************************************)
(* C7 and C8.  set and get of the store, under SpecStore.                  *)
(***************************************************************************)
\* "$<len v>\r\nv\r\n", for v shorter than ten bytes
BulkOf(v) == <<36, 48 + Len(v), 13, 10>> \o v \o <<13, 10>>

\* "$-1\r\n"
NullBytes == <<36, 45, 49, 13, 10>>

\* The last call was get(k), at the instant caller.time, and k has been set.
GotSetKey(k) == caller.op = "get" /\ caller.key = k /\ k \in DOMAIN caller.last

\* C7: after any sequence of set(k, v, None) calls for a key k, whatever was
\* done with other keys, get(k) returns the bulk string of the value most
\* recently set for k.
C7_GetReturnsLastSet ==
    \A k \in StoreKeys :
        (/\ GotSetKey(k)
         /\ ~caller.last[k].expiry.some
         /\ ~caller.last[k].prior)
            => caller.resp = BulkOf(caller.last[k].value)

\* get(k) answered after k was set more than once, never with an expiry, the
\* last time with the two-byte value, after the clock had advanced.
C7_Witness ==
    \E k \in StoreKeys :
        /\ GotSetKey(k)
        /\ ~caller.last[k].expiry.some /\ ~caller.last[k].prior
        /\ caller.last[k].n >= 2
        /\ caller.last[k].value = <<50, 50>>
        /\ caller.resp = BulkOf(<<50, 50>>)
        /\ caller.time > 0

\* What C8 asks of get(k) when the latest set of k was set(k, v, Some(m)) at t0.
ExpiryHonoured(k) ==
    IF caller.time < caller.last[k].at + caller.last[k].expiry.v
    THEN caller.resp = BulkOf(caller.last[k].value)
    ELSE caller.resp = NullBytes

\* C8, as stated: after set(k, v, Some(m)) with m > 0 at time t0, get(k) at a
\* time before t0 + m returns the bulk string of v, and get(k) at t0 + m or
\* later returns the null bulk.
C8_ExpiryAfterAnySet ==
    \A k \in StoreKeys :
        (/\ GotSetKey(k)
         /\ caller.last[k].expiry.some
         /\ caller.last[k].expiry.v > 0)
            => ExpiryHonoured(k)

\* C8, amended: the same, for a key that no earlier set gave an expiry.
C8_ExpiryAfterFirstExpiringSet ==
    \A k \in StoreKeys :
        (/\ GotSetKey(k)
         /\ caller.last[k].expiry.some
         /\ caller.last[k].expiry.v > 0
         /\ ~caller.last[k].prior)
            => ExpiryHonoured(k)

\* get(k) answered the null bulk exactly m milliseconds after the only
\* expiring set of k, which had followed a set of k without expiry.
C8_Witness ==
    \E k \in StoreKeys :
        /\ GotSetKey(k)
        /\ caller.last[k].expiry.some /\ caller.last[k].expiry.v > 0
        /\ ~caller.last[k].prior
        /\ caller.last[k].n >= 2
        /\ caller.time = caller.last[k].at + caller.last[k].expiry.v
        /\ caller.resp = NullBytes

(***************************************************************************)
(* C11.  A failed write to one replica during the fan-out.                 *)
(***************************************************************************)
\* The peer registered under address a.
PeerAt(a) == CHOOSE q \in Peers : Addr(q) = a

C11_State ==
    \* an applied SET was written to every peer its fan-out covered whose
    \* connection is up, whatever became of the writes to the others
    /\ \A i \in DOMAIN applied : \A a \in applied[i].targets :
          (applied[i].command = "Set" /\ sock[PeerAt(a)] = "open")
              => FanoutAt(PeerAt(a), applied[i].tag) # {}
    \* and the reply of a SET is +OK, written after the SET was applied
    /\ \A p \in Clients :
          (task[p].pc = "reply" /\ Current(p).command = "Set")
              => /\ task[p].response = OkReply
                 /\ \E i \in DOMAIN applied : applied[i].tag = Tag(p)

\* No write of the fan-out ends the command: each one leaves the task in the
\* fan-out or hands over to the store, the store applies the SET, and the +OK
\* of a last command is written to a client whose connection is up.
C11_Step ==
    \A p \in Clients :
        /\ (task[p].pc = "propagate" /\ task'[p] # task[p])
              => /\ task'[p].pc \in {"propagate", "apply"}
                 /\ task'[p].pc = "apply" <=> task'[p].pending = {}
                 /\ task'[p].targets = task[p].targets
        /\ (task[p].pc = "apply" /\ task'[p] # task[p])
              => /\ task'[p].pc = "reply"
                 /\ Len(applied') = Len(applied) + 1
                 /\ applied'[Len(applied')].tag = Tag(p)
                 /\ applied'[Len(applied')].targets = task[p].targets
        /\ (/\ task[p].pc = "reply" /\ task'[p] # task[p]
            /\ Current(p).command = "Set"
            /\ task[p].grp = Len(task[p].batch)
            /\ sock[p] = "open")
              => p2c'[p] = Append(p2c[p], Segment(OkBytes, "reply", Tag(p)))

\* C11: if the write to one registered replica fails during the fan-out, the
\* SET is still applied to the primary's store, is still written to every
\* other registered replica, and the client is still written +OK.
C11_FailedWriteDoesNotAbort == []C11_State /\ [][C11_Step]_vars

\* A SET whose fan-out covered a replica that had exited, which got nothing,
\* and another peer, which got the SET; the SET was applied and its client was
\* written +OK.
C11_Witness ==
    \E i \in DOMAIN applied : \E r \in Replicas : \E q \in Peers \ {r} :
        /\ applied[i].command = "Set"
        /\ {Addr(r), Addr(q)} \subseteq applied[i].targets
        /\ sock[r] = "closed"
        /\ FanoutAt(r, applied[i].tag) = {}
        /\ FanoutAt(q, applied[i].tag) # {}
        /\ applied[i].key \in DOMAIN store.data
        /\ \E n \in DOMAIN p2c[applied[i].tag.peer] :
              /\ p2c[applied[i].tag.peer][n].tag = applied[i].tag
              /\ p2c[applied[i].tag.peer][n].bytes = OkBytes

(***************************************************************************)
(* C12.  A replica that is stuck.                                          *)
(***************************************************************************)
\* C12, as stated: a stuck peer holds up nothing but its own task and the
\* fan-out send to it, so a command of a client that the primary has decoded
\* is eventually processed: the task of the client leaves the command.
C12_OtherClientsEventuallyServed ==
    \A p \in Clients : (task[p].pc = "dispatch") ~> (task[p].pc # "dispatch")

(***************************************************************************)
(* C13.  The replica handshake: dial, then four messages in strict order.  *)
(***************************************************************************)
\* "REPLCONF", "listening-port", "6380", "capa", "psync2", "PSYNC", "?", "-1"
HandshakeWords ==
    << << <<112, 105, 110, 103>> >>,
       << <<82, 69, 80, 76, 67, 79, 78, 70>>,
          <<108, 105, 115, 116, 101, 110, 105, 110, 103, 45, 112, 111, 114, 116>>,
          <<54, 51, 56, 48>> >>,
       << <<82, 69, 80, 76, 67, 79, 78, 70>>, <<99, 97, 112, 97>>,
          <<112, 115, 121, 110, 99, 50>> >>,
       << <<80, 83, 89, 78, 67>>, <<63>>, <<45, 49>> >> >>

\* The four messages as a client library encodes them.
HandshakeWire == [i \in DOMAIN HandshakeWords |-> ClientBytes(HandshakeWords[i])]

C13_State ==
    \A r \in Replicas :
        hs[r].role = "Slave" =>
            \* what was sent is a prefix of the four messages, in their order
            /\ Len(hs[r].sent) <= Len(HandshakeWire)
            /\ hs[r].sent = Take(HandshakeWire, Len(hs[r].sent))
            \* what is in flight is the tail of what was sent
            /\ Len(c2p[r]) <= Len(hs[r].sent)
            /\ c2p[r] = Drop(hs[r].sent, Len(hs[r].sent) - Len(c2p[r]))
            \* nothing is sent before the dial has succeeded
            /\ hs[r].sent # <<>> => hs[r].dial = "connected"
            \* streaming only when every step succeeded
            /\ hs[r].pc = "streaming"
                  => /\ hs[r].dial = "connected"
                     /\ hs[r].link = "up"
                     /\ hs[r].sent = HandshakeWire
            \* a failed dial or a failed send ends the handshake with an error
            /\ hs[r].dial \in {"refused", "timeout"} => hs[r].pc = "failed"
            /\ (hs[r].link = "reset" /\ hs[r].pc # "sending") => hs[r].pc = "failed"

\* Once handshake() has returned an error it sends nothing more.
C13_Step ==
    \A r \in Replicas :
        hs[r].pc = "failed" => /\ hs'[r] = hs[r]
                               /\ Len(c2p'[r]) <= Len(c2p[r])

\* C13: the replica handshake dials the primary and then sends exactly PING,
\* REPLCONF listening-port <port>, REPLCONF capa psync2, PSYNC ? -1 in that
\* order; it ends in the streaming state only if every step succeeded, and a
\* failure of the dial or of a send ends it with an error without the later
\* messages being sent.
C13_HandshakeInOrderOrError == []C13_State /\ [][C13_Step]_vars

\* A send failed after two messages: the handshake ended with an error and the
\* last two messages were never sent.
C13_Witness ==
    \E r \in Replicas :
        /\ hs[r].role = "Slave"
        /\ hs[r].pc = "failed"
        /\ hs[r].link = "reset"
        /\ Len(hs[r].sent) = 2

(***************************************************************************)
(* C14.  Each handshake message waits for the reply to the one before.     *)
(***************************************************************************)
\* The replies the primary has written to replica r.
RepliesTo(r) == SelectSeq(p2c[r], LAMBDA g : g.kind = "reply")

\* C14, as stated: during the replica handshake message i+1 is sent only after
\* the primary's reply to message i has been received by the replica; at the
\* least the primary has then written that reply.
C14_NextMessageAfterReply ==
    \A r \in Replicas :
        hs[r].role = "Slave" => Len(hs[r].sent) <= Len(RepliesTo(r)) + 1

(***************************************************************************)
(* C15.  The handshake of a replica whose primary cannot be reached.       *)
(***************************************************************************)
\* C15: handshake() on a Slave-role client whose primary cannot be reached
\* (connection refused, or the dial not completed within two seconds) returns
\* an error, and the client's read and write handles remain unset.
C15_UnreachablePrimaryIsError ==
    \A r \in Replicas :
        (hs[r].role = "Slave" /\ hs[r].dial \in {"refused", "timeout"})
            => /\ hs[r].pc = "failed"
               /\ ~hs[r].stream
               /\ hs[r].sent = <<>>
               /\ c2p[r] = <<>>

C15_Witness ==
    \E r \in Replicas :
        /\ hs[r].role = "Slave"
        /\ hs[r].dial = "timeout"
        /\ hs[r].pc = "failed"

(***************************************************************************)
(* C16.  The handshake of a client whose role is Master.                   *)
(***************************************************************************)
\* C16, as stated: handshake() invoked on a client whose role is Master
\* returns Ok, that is, it never returns an error.
C16_MasterHandshakeIsOk ==
    \A r \in Replicas : hs[r].role = "Master" => hs[r].pc # "failed"

(***************************************************************************)
(* C17.  Several top-level payloads in one read.                           *)
(***************************************************************************)
\* Client p sends nothing but SETs, each an array of its own.
OnlyPlainSets(p) ==
    /\ script[p] # <<>>
    /\ \A i \in DOMAIN script[p] : /\ Len(script[p][i]) = 3
                                   /\ ToLower(script[p][i][1]) = SetName

\* The primary has read all that client p wrote and is through with it.
Served(p) ==
    /\ sock[p] = "open"
    /\ c2p[p] = <<>>
    /\ task[p].pc = "read"

\* The +OK replies written to client p.
OkReplies(p) == SelectSeq(p2c[p], LAMBDA g : g.kind = "reply" /\ g.bytes = OkBytes)

\* C17, as stated: every top-level payload a read delivers is decoded and
\* dispatched in order, however the reads cut the stream: once the primary is
\* through with the SETs of a client, it has applied every one of them in
\* order and written one +OK for each.
C17_EveryPayloadOfAReadDispatched ==
    \A p \in Clients :
        (OnlyPlainSets(p) /\ Served(p))
            => /\ AppliedSets(p) = SentSets(p)
               /\ Len(OkReplies(p)) = Len(script[p])

(***************************************************************************)
(* C18.  Only the last command of a batch is answered.                     *)
(***************************************************************************)
\* The number of commands in an array a client wrote.
CommandsIn(cmd) == Cardinality({i \in DOMAIN cmd : ToLower(cmd[i]) \in Range(CommandNames)})

\* The replies written to client p for the batch of its seg-th array.
RepliesFor(p, seg) == {i \in DOMAIN p2c[p] : p2c[p][i].kind = "reply" /\ p2c[p][i].tag.seg = seg}

C18_State ==
    /\ \A p \in Clients : \A i \in DOMAIN p2c[p] :
          p2c[p][i].kind = "reply"
              => /\ p2c[p][i].tag.grp = CommandsIn(script[p][p2c[p][i].tag.seg])
                 /\ Cardinality(RepliesFor(p, p2c[p][i].tag.seg)) = 1
    \* the writes of one batch are applied in the order of its commands
    /\ \A i, j \in DOMAIN applied :
          (/\ i < j
           /\ applied[i].tag.peer = applied[j].tag.peer
           /\ applied[i].tag.seg = applied[j].tag.seg)
              => applied[i].tag.grp < applied[j].tag.grp

\* The end of a command that is not the last of its batch writes nothing and
\* hands over to the next command of the batch.
C18_Step ==
    \A p \in Clients :
        (/\ task[p].pc = "reply"
         /\ task[p].grp < Len(task[p].batch)
         /\ task'[p] # task[p])
            => /\ p2c'[p] = p2c[p]
               /\ task'[p].pc = "dispatch"
               /\ task'[p].batch = task[p].batch
               /\ task'[p].grp = task[p].grp + 1

KeysWrittenTo(r) ==
    {SentOf(p2c[r][i].tag).key : i \in {j \in DOMAIN p2c[r] : p2c[r][j].kind = "fanout"}}

\* C19, as stated: every command a replica receives on the socket of its
\* primary, several in one read included, is applied to its store, and the
\* replica writes nothing to that socket in reply.
C19_ReplicaAppliesAllSilently ==
    \A r \in Replicas :
        /\ Ingested(r) => KeysWrittenTo(r) \subseteq DOMAIN replica[r].store.data
        /\ Len(c2p[r]) <= Len(HandshakeMessages)
        /\ \A i \in DOMAIN c2p[r] : c2p[r][i] \in Range(HandshakeMessages)

(***************************************************************************)
(* C20.  The replica and the stream that follows the handshake.            *)
(***************************************************************************)
\* Replica r has read the RDB blob the primary wrote to it.
ReadTheRdb(r) == \E i \in 1..replica[r].pos : p2c[r][i].kind = "rdb"

\* The SETs the primary wrote to replica r after position n of its socket.
KeysWrittenAfter(r, n) ==
    {SentOf(p2c[r][i].tag).key :
        i \in {j \in DOMAIN p2c[r] : j > n /\ p2c[r][j].kind = "fanout"}}

\* C20, as stated: whatever way the stream of the primary (FULLRESYNC line,
\* RDB blob, the SETs after them) is cut into reads, the replica drops the line
\* and the blob, goes on reading, and applies every SET that follows: a
\* replica that has read the blob runs, its store holds nothing but keys of
\* propagated SETs, and once it has read everything it holds the key of
\* every SET written after the blob.
C20_ResyncStreamHoweverCut ==
    \A r \in Replicas :
        (ReadTheRdb(r) /\ replica[r].state # "exited")
            => /\ replica[r].state = "streaming"
               /\ DOMAIN replica[r].store.data \subseteq KeysWrittenTo(r)
               /\ replica[r].pos = Len(p2c[r])
                     => \A n \in ResyncAt(r) :
                           KeysWrittenAfter(r, n + 1) \subseteq DOMAIN replica[r].store.data

(***************************************************************************)
(* C29.  The lock of the replica map and the writes of the fan-out.        *)
(***************************************************************************)
\* C29, as stated: the fan-out releases the lock of the replica map before it
\* writes to any replica socket: no fan-out write is made to a socket while
\* the lock of the map is held.
C29_NoFanoutWriteUnderMapLock ==
    [][\A r \in Peers :
          (/\ Len(p2c'[r]) = Len(p2c[r]) + 1
           /\ p2c'[r][Len(p2c'[r])].kind = "fanout")
              => mapLock = 0]_vars

(***************************************************************************)
(* C27.  XADD key id f1 v1 ... fn vn.                                      *)
(***************************************************************************)
\* The field-value pairs a client wrote after the name, the key and the id.
XAddPairs(cmd) ==
    LET n == (Len(cmd) - 3) \div 2
    IN  [f \in {cmd[2 * i + 2] : i \in 1..n} |->
            cmd[(CHOOSE i \in 1..n : cmd[2 * i + 2] = f) * 2 + 3]]

\* The XADDs the primary has executed.
XAdded == {i \in DOMAIN applied : applied[i].command = "XAdd"}

\* C27, as stated for the store: once XADD key id f1 v1 ... fn vn is executed
\* the store holds under key a stream with that id whose entries are exactly
\* the pairs (f1, v1) ... (fn, vn), and TYPE of the key is stream.
C27_XAddStoresThePairs ==
    \A i \in XAdded :
        LET cmd == script[applied[i].tag.peer][applied[i].tag.seg]
        IN  /\ cmd[2] \in DOMAIN store.data
            /\ store.data[cmd[2]] = RStream(cmd[3], XAddPairs(cmd))
            /\ GetType(store, cmd[2]) = TypeStr(RStream(cmd[3], EmptyMap))

(***************************************************************************)
(* C21.  One array, one command.                                           *)
(***************************************************************************)
\* The arguments a client wrote after the name of the command.
ArgumentsOf(cmd) == [i \in 1..(Len(cmd) - 1) |-> BulkString(cmd[i + 1])]

\* C21, as stated: an array whose first element is a bulk string that names a
\* command is decoded into exactly one command, whose arguments are all the
\* remaining elements in order, whatever strings they are: what the task of
\* a client holds after a read is one payload, the command its array named
\* with every other element of the array as its arguments.
C21_ArrayIsOneCommand ==
    \A p \in Clients :
        task[p].batch # <<>>
            => LET cmd == script[p][task[p].seg]
               IN  /\ Len(task[p].batch) = 1
                   /\ RetrieveContent(task[p].batch[1]).command = CommandParse(cmd[1])
                   /\ RetrieveContent(task[p].batch[1]).contents
                         = ValueArray(ArgumentsOf(cmd))

(***************************************************************************)
(* C24, C28.  A replica that is sent PSYNC or REPLCONF.                    *)
(***************************************************************************)
\* Peer p is at a command of the write w it sent.
Serving(p, w) ==
    /\ task[p].batch # <<>>
    /\ script[p][task[p].seg] = w

\* "-ERR"
ErrPrefix == <<45, 69, 82, 82>>

\* The task of peer p has a reply to write and it is an error.
RepliesError(t) ==
    /\ t.pc = "reply"
    /\ Len(t.response) >= Len(ErrPrefix)
    /\ Take(t.response, Len(ErrPrefix)) = ErrPrefix

\* C24, as stated: a replica that receives PSYNC or REPLCONF answers -ERR,
\* changes nothing of its state and goes on serving the connection: the step
\* that handles the command leaves the task with an error reply to write and
\* leaves the handles, the store and the socket of the peer as they were.
C24_RoleIllegalIsRefused ==
    [][\A p \in Clients :
          (/\ client.role = "Slave"
           /\ Serving(p, ServeWrites.psync) \/ Serving(p, ServeWrites.replconf)
           /\ task[p].pc = "dispatch"
           /\ task'[p] # task[p])
              => /\ RepliesError(task'[p])
                 /\ client' = client
                 /\ store' = store
                 /\ p2c' = p2c]_vars

\* C28, as stated: on a replica the handle of the connection to the primary
\* is the one the handshake set, whatever command whatever peer sends: no
\* step replaces or clears it.
C28_PrimaryHandleNeverReplaced ==
    [][client.role = "Slave" => client'.master_stream_w = client.master_stream_w]_vars

(***************************************************************************)
(* C25.  Arguments that are missing or are no numbers.                     *)
(***************************************************************************)
ArgumentErrors == {ServeWrites.set_px, ServeWrites.set_px_abc, ServeWrites.get}

\* C25, as stated: a command with a missing or unparsable argument (SET k v
\* PX, SET k v PX abc, GET with no key) gets an error reply, leaves the store
\* as it was, and the connection is served on: no step of the handling of
\* such a command ends the task or changes the store, and the reply it
\* comes to is an error.
C25_ArgumentErrorIsAnswered ==
    [][\A p \in Clients :
          (/\ \E w \in ArgumentErrors : Serving(p, w)
           /\ task'[p] # task[p])
              => /\ task'[p].pc \notin {"failed", "panicked"}
                 /\ store' = store
                 /\ task'[p].pc = "reply" => task'[p].response[1] = 45]_vars

(***************************************************************************)
(* C26.  Bytes that are not a command in RESP.                             *)
(***************************************************************************)
ProtocolErrors ==
    {ServeWrites.bad_length, ServeWrites.bad_type, ServeWrites.truncated,
     ServeWrites.no_command, ServeWrites.empty_array, ServeWrites.bad_end}

\* C26, as stated: a protocol error in what a client sent (a malformed length,
\* an unknown type byte, a truncated frame, input with no recognised command)
\* ends the handler of that connection and of no other, no command of that
\* input is executed and the store is unchanged: a read that returns such
\* input ends the task of the peer (by an error or a panic) and leaves the
\* store and the tasks of the other peers as they were.
C26_ProtocolErrorEndsTheHandler ==
    [][\A p \in Clients :
          (/\ task[p].pc = "read"
           /\ Len(c2p'[p]) < Len(c2p[p])
           /\ \E i \in 1..(Len(c2p[p]) - Len(c2p'[p])) : c2p[p][i] \in ProtocolErrors)
              => /\ task'[p].pc \in {"failed", "panicked"}
                 /\ store' = store
                 /\ \A q \in Peers \ {p} : task'[q] = task[q]]_vars

(***************************************************************************)
(* C30.  PSYNC enrolment against the fan-out of a SET.                     *)
(***************************************************************************)
\* The PSYNC handler of peer p holds the lock of p's write half and waits for
\* the lock of the replica map, which the fan-out of peer q holds while it
\* waits for the lock of p's write half.
WaitForEachOther(p, q) ==
    /\ task[p].pc = "psync_enrol"
    /\ wlock[p]
    /\ mapLock = q
    /\ task[q].pc = "propagate"
    /\ \E a \in task[q].pending : slave_connections[a] = p

\* C30, as stated: the primary never deadlocks between a PSYNC enrolment and
\* the fan-out of a SET, a PSYNC on a connection that is already registered
\* included: the two never wait for each other.
C30_EnrolAndFanoutNeverDeadlock ==
    \A p \in Peers, q \in Peers : ~WaitForEachOther(p, q)

(***************************************************************************)
(* C22.  Names of commands in any case.                                    *)
(***************************************************************************)
\* C22, as stated: the name of a command is matched whatever the case of its
\* letters and is rendered in upper case: for every command c and every
\* spelling s of its name, parse(s) is c, what process_command is called with
\* is the same for every spelling, the rendering of c is its name in upper
\* case, and parse(render(c)) is c.
C22_AnyCaseParsesUpperCaseRenders ==
    \A c \in DOMAIN CommandNames :
        (caller.op \in {"parse", "retrieve", "render", "reparse"}
            /\ caller.key \in Spellings(CommandNames[c]))
        => /\ caller.op = "parse" => caller.resp = c
           /\ caller.op = "retrieve"
                 => caller.resp = [ok |-> TRUE, command |-> c,
                                   contents |-> ValueArray(<<BulkString(KeyA)>>)]
           /\ caller.op = "render"
                 => caller.last = [i \in DOMAIN CommandNames[c] |-> CommandNames[c][i] - 32]
           /\ caller.op = "reparse" => caller.resp = c

\* "PsYnC" was parsed, rendered, and the rendering parsed.
C22_Witness ==
    /\ caller.op = "reparse"
    /\ caller.key = <<80, 115, 89, 110, 67>>
    /\ caller.last = CommandDisplay.PSync
    /\ caller.resp = "PSync"

(***************************************************************************)
(* C23.  Encoding and decoding a payload.                                  *)
(***************************************************************************)
\* No simple string of the payload holds "\r\n".
RECURSIVE NoDelimiterInSimpleStrings(_)
NoDelimiterInSimpleStrings(p) ==
    CASE p.t = "SimpleString" -> \A i \in 1..(Len(p.s) - 1) : ~(p.s[i] = 13 /\ p.s[i + 1] = 10)
      [] p.t = "Array" -> \A i \in DOMAIN p.items : NoDelimiterInSimpleStrings(p.items[i])
      [] OTHER -> TRUE

\* C23, as stated: for every payload p of simple strings, bulk strings and
\* arrays, decoding encode(p) gives p and a consumed count that is the length
\* of encode(p).
C23_DecodeOfEncode ==
    caller.op = "decode" => caller.resp = ParseOk(caller.key, Len(caller.last))

\* C23, amended: the same for every payload none of whose simple strings
\* holds "\r\n".
C23_DecodeOfEncodeWithoutDelimiter ==
    (caller.op = "decode" /\ NoDelimiterInSimpleStrings(caller.key))
        => caller.resp = ParseOk(caller.key, Len(caller.last))

\* An array of a bulk string that holds "\r\n" and a nested array was encoded
\* and decoded.
C23_Witness ==
    /\ caller.op = "decode"
    /\ caller.key = Array(<<BulkString(DELIMITER), Array(<<BulkString(<<97>>)>>)>>)
    /\ caller.resp.st = "ok"
    /\ caller.resp.used = Len(caller.last)

(***************************************************************************)
(* C33.  What the sweep leaves behind.                                     *)
(***************************************************************************)
\* C33, as stated: after the sweep at the instant t (the one get runs), every
\* key listed in an entry of expiries with instant <= t is gone from data, and
\* expiries holds only entries with an instant after t.
C33_SweepDropsWhatIsDue ==
    caller.op = "get"
        => /\ \A t \in DOMAIN store.expiries :
                 t <= caller.time => Range(store.expiries[t]) \cap DOMAIN store.data = {}
           /\ \A t \in DOMAIN store.expiries : t > caller.time

(***************************************************************************)
(* C34.  What set leaves alone.                                            *)
(***************************************************************************)
\* The expiries after set(k, v, expiry) at the instant now, as C34 has them:
\* those before, with k appended to the list at now + m when expiry is Some(m).
ExpiriesAfterSet(k, expiry) ==
    IF ~expiry.some THEN store.expiries
    ELSE [t \in (DOMAIN store.expiries) \cup {now + expiry.v} |->
             IF t = now + expiry.v
             THEN IF t \in DOMAIN store.expiries
                  THEN Append(store.expiries[t], k) ELSE <<k>>
             ELSE store.expiries[t]]

\* C34, as stated: set(k, v, expiry) removes and alters no entry of expiries
\* that exists: without expiry it leaves expiries as they are, with Some(m) it
\* only appends k to the list at now + m; and the data of every other key is
\* as it was.
C34_SetKeepsExpiriesAndOtherKeys ==
    [][caller'.sets # caller.sets
          => LET k == caller'.key
             IN  /\ store'.expiries = ExpiriesAfterSet(k, caller'.last[k].expiry)
                 /\ DOMAIN store'.data = (DOMAIN store.data) \cup {k}
                 /\ \A other \in (DOMAIN store.data) \ {k} :
                       store'.data[other] = store.data[other]]_vars

\* A set with an expiry was made when the list of its instant held a key
\* already and the other key was in data.
C34_Witness ==
    /\ caller.op = "set"
    /\ caller.last[caller.key].expiry.some
    /\ \E t \in DOMAIN store.expiries :
          /\ Len(store.expiries[t]) = 2
          /\ store.expiries[t][2] = caller.key
          /\ t = caller.time + caller.last[caller.key].expiry.v
    /\ DOMAIN store.data = StoreKeys

(***************************************************************************)
(* C35.  An expiry that a later set without expiry does not take back.     *)
(***************************************************************************)
\* The last call was get(k); k was set twice, with an expiry that falls due
\* at d and then, before d, without expiry.
GotAfterExpiringThenPlainSet(k, d) ==
    /\ GotSetKey(k)
    /\ caller.last[k].n = 2
    /\ ~caller.last[k].expiry.some
    /\ caller.last[k].due = {d}
    /\ caller.last[k].at < d

\* C35, as stated: after set(k, v1, Some(m)) and then, before the deadline,
\* set(k, v2, None), the entry of the first set still evicts the key: get(k)
\* at or after the deadline returns the null bulk, not v2.
C35_StaleExpiryStillEvicts ==
    \A k \in StoreKeys, d \in 0..(MaxTime + MaxExpiry) :
        (GotAfterExpiringThenPlainSet(k, d) /\ caller.time >= d)
            => caller.resp = NullBytes

\* get(k) answered the null bulk at the very deadline of the first set, the
\* second set having been made after the clock had advanced.
C35_Witness ==
    \E k \in StoreKeys, d \in 0..(MaxTime + MaxExpiry) :
        /\ GotAfterExpiringThenPlainSet(k, d)
        /\ caller.last[k].at > 0
        /\ caller.time = d
        /\ caller.resp = NullBytes

(***************************************************************************)
(* C36.  TYPE does not sweep.                                              *)
(***************************************************************************)
\* "+string\r\n"
StringType == <<43, 115, 116, 114, 105, 110, 103, 13, 10>>

\* C36, as stated: get_type runs no sweep and changes neither data nor
\* expiries; a key that was set reports +string as long as no get has run
\* since, its expiry having passed or not, so that +none is reported only
\* after a get has run the sweep.
C36_TypeDoesNotSweep ==
    /\ [](\A k \in StoreKeys :
             (/\ caller.op = "type" /\ caller.key = k
              /\ k \in DOMAIN caller.last
              /\ ~caller.last[k].got)
                 => caller.resp = StringType)
    /\ [][caller'.op = "type" => store' = store]_vars

\* TYPE reported +string for a key whose expiry had passed, no get having run
\* since the key was set.
C36_Witness ==
    \E k \in StoreKeys :
        /\ caller.op = "type" /\ caller.key = k
        /\ k \in DOMAIN caller.last
        /\ ~caller.last[k].got
        /\ caller.last[k].expiry.some
        /\ caller.last[k].at + caller.last[k].expiry.v < caller.time
        /\ k \in UNION {Range(store.expiries[t]) : t \in DOMAIN store.expiries}
        /\ caller.resp = StringType

(***************************************************************************)
(* C37.  A SET the primary does not apply.                                 *)
(***************************************************************************)
\* The writes peer r was sent by the fan-out.
FanoutsTo(r) == {i \in DOMAIN p2c[r] : p2c[r][i].kind = "fanout"}

\* C37, as stated: a SET that the primary fails to apply (an option value
\* that is missing or is no integer) is not propagated: no fan-out write
\* comes from such a SET.
C37_ErroredSetIsNotPropagated ==
    \A r \in Peers : \A i \in FanoutsTo(r) :
        script[p2c[r][i].tag.peer][p2c[r][i].tag.seg]
            \notin {ServeWrites.set_px, ServeWrites.set_px_abc}

(***************************************************************************)
(* C31.  The writes to one socket.                                         *)
(***************************************************************************)
\* C31: the writes to one socket exclude each other.  What a PSYNC writes
\* under the lock of the write half stays together: on every socket each
\* FULLRESYNC line that is not the last write is followed at once by the RDB
\* file of the same PSYNC, each RDB file follows its FULLRESYNC line at once,
\* and while a PSYNC holds the lock nobody else's write reaches the socket.
C31_WritesToOneSocketExclude ==
    /\ [](\A r \in Peers : \A i \in DOMAIN p2c[r] :
            /\ (p2c[r][i].kind = "fullresync" /\ i < Len(p2c[r]))
                   => /\ p2c[r][i + 1].kind = "rdb"
                      /\ p2c[r][i + 1].tag = p2c[r][i].tag
            /\ p2c[r][i].kind = "rdb"
                   => /\ i > 1
                      /\ p2c[r][i - 1].kind = "fullresync"
                      /\ p2c[r][i - 1].tag = p2c[r][i].tag)
    /\ [][\A r \in Peers :
            (wlock[r] /\ p2c'[r] # p2c[r])
                => /\ Len(p2c'[r]) = Len(p2c[r]) + 1
                   /\ p2c'[r][Len(p2c'[r])].kind = "rdb"
                   /\ p2c'[r][Len(p2c'[r])].tag = Tag(r)]_vars

\* A fan-out has a write pending for a registered connection whose own PSYNC
\* holds the lock of the write half, and that connection was already sent a
\* FULLRESYNC line and an RDB file before.
C31_Witness ==
    \E r \in Clients, q \in Clients :
        /\ wlock[r]
        /\ task[r].pc = "psync_rdb"
        /\ task[q].pc = "propagate"
        /\ \E a \in task[q].pending : slave_connections[a] = r
        /\ \E i \in DOMAIN p2c[r] : p2c[r][i].kind = "rdb"

(***************************************************************************)
(* C40.  Two fan-outs and two registered connections.                      *)
(***************************************************************************)
\* C40: two connections that both were sent the writes of two fan-outs were
\* sent them in the same order, however the SETs of the clients interleave.
C40_SameOrderOnEveryReplica ==
    \A r1 \in Peers, r2 \in Peers :
        \A i \in FanoutsTo(r1), j \in FanoutsTo(r1), k \in FanoutsTo(r2), l \in FanoutsTo(r2) :
            (/\ p2c[r1][i].tag = p2c[r2][k].tag
             /\ p2c[r1][j].tag = p2c[r2][l].tag
             /\ i < j)
                => k < l

\* Two registered connections were each sent the SETs of two different
\* clients.
C40_Witness ==
    \E r1 \in Peers, r2 \in Peers :
        /\ r1 # r2
        /\ \E i \in FanoutsTo(r1), j \in FanoutsTo(r1), k \in FanoutsTo(r2), l \in FanoutsTo(r2) :
              /\ p2c[r1][i].tag = p2c[r2][k].tag
              /\ p2c[r1][j].tag = p2c[r2][l].tag
              /\ i < j
              /\ p2c[r1][i].tag.peer # p2c[r1][j].tag.peer

(***************************************************************************)
(* C39.  What a replica connection is sent first.                          *)
(***************************************************************************)
\* C39: apart from the replies to the commands before PSYNC, the first write
\* of the primary to a connection is the FULLRESYNC line and the next one the
\* RDB file, and every fan-out write to the connection comes after a
\* FULLRESYNC line and an RDB file written to it in full.
C39_ResyncBeforeAnyFanout ==
    \A r \in Peers : \A i \in DOMAIN p2c[r] :
        /\ i \in FanoutsTo(r) => \E j \in ResyncAt(r) : j + 1 < i
        /\ (/\ p2c[r][i].kind # "reply"
            /\ \A j \in 1..(i - 1) : p2c[r][j].kind = "reply")
               => /\ p2c[r][i].bytes = FullResyncLine
                  /\ i < Len(p2c[r]) => p2c[r][i + 1].bytes = RdbBlob

\* A replica was sent the replies of the handshake, the line, the file and
\* then the SET of a client, which the primary applied.
C39_Witness ==
    \E r \in Replicas : \E i \in FanoutsTo(r) :
        /\ i - 2 \in ResyncAt(r)
        /\ i > 3
        /\ \A j \in 1..(i - 3) : p2c[r][j].kind = "reply"
        /\ p2c[r][i].tag.peer \in Clients
        /\ \E e \in Range(applied) : e.tag = p2c[r][i].tag /\ e.targets = {Addr(r)}

(***************************************************************************)
(* The primary with a replica while the clock advances: one client sets a  *)
(* key with PX, the other asks for it.                                     *)
(***************************************************************************)
\* "SET a 1 PX m" for client 1 and "GET a" for client 2, or nothing.
ExpiryScripts ==
    {s \in [Clients -> {<<>>, << << <<71, 69, 84>>, KeyA >> >>}
                         \cup {<< << <<83, 69, 84>>, KeyA, Val1, <<80, 88>>, FormatNat(m) >> >> :
                                  m \in 1..MaxExpiry}] :
        /\ s[1] # << << <<71, 69, 84>>, KeyA >> >>
        /\ \A p \in Clients \ {1} : s[p] \in {<<>>, << << <<71, 69, 84>>, KeyA >> >>}}

ExpiryInit ==
    /\ script \in ExpiryScripts
    /\ sock = [p \in Peers |-> "open"]
    /\ c2p = [p \in Peers |-> PeerWrites(p)]
    /\ p2c = [p \in Peers |-> <<>>]
    /\ task = [p \in Peers |-> NewTask]
    /\ wlock = [p \in Peers |-> FALSE]
    /\ mapLock = 0
    /\ slave_connections = EmptyMap
    /\ store = StoreNew
    /\ now = 0
    /\ applied = <<>>
    /\ replica = [r \in Replicas |-> [state |-> "streaming", store |-> StoreNew, pos |-> 0]]
    /\ caller = NewCaller
    /\ hs = [r \in Replicas |-> StreamingNode]
    /\ client = MasterClient

ExpiryNext == Next \/ Tick

SpecExpiry == ExpiryInit /\ [][ExpiryNext]_vars

(***************************************************************************)
(* C38.  SET with PX on the primary and on its replicas.                   *)
(***************************************************************************)
\* The expiry in milliseconds of the SET the applied write e came from.
PxOf(e) == DigitsValue(script[e.tag.peer][e.tag.seg][5])

MaxTaskCalls == 2

\* The call the task of p is at.
Call(p) == script[p][task[p].seg + 1]

TasksInit ==
    /\ script \in [Clients ->
                     UNION {[1..n -> {[op |-> "get", key |-> KeyA, value |-> Val1,
                                       expiry_ms |-> None]}
                                      \cup {[op |-> "set", key |-> KeyA, value |-> Val1,
                                             expiry_ms |-> Some(m)] : m \in 0..MaxExpiry}] :
                               n \in 0..MaxTaskCalls}]
    /\ sock = [p \in Peers |-> "open"]
    /\ c2p = [p \in Peers |-> <<>>]
    /\ p2c = [p \in Peers |-> <<>>]
    /\ task = [p \in Peers |-> NewTask]
    /\ wlock = [p \in Peers |-> FALSE]
    /\ mapLock = 0
    /\ slave_connections = EmptyMap
    /\ store = StoreNew
    /\ now = 0
    /\ applied = <<>>
    /\ replica = [r \in Replicas |-> [state |-> "handshaking", store |-> StoreNew, pos |-> 0]]
    /\ caller = NewCaller
    /\ hs = [r \in Replicas |-> NewNode("Slave")]
    /\ client = MasterClient

\* KeyValueStore::set, up to the insertion: set_expiry under the lock of
\* expiries, which it releases when it returns.
TaskSetExpiry(p) ==
    /\ task[p].pc = "read"
    /\ task[p].seg < Len(script[p])
    /\ Call(p).op = "set"
    /\ store' = IF Call(p).expiry_ms.some
                THEN SetExpiry(store, Call(p).key, Call(p).expiry_ms.v, now)
                ELSE store
    /\ task' = [task EXCEPT ![p].pc = "insert"]
    /\ UNCHANGED <<client, hs, caller, script, sock, c2p, p2c, wlock, mapLock, slave_connections, now, applied, replica>>

\* KeyValueStore::set: the insertion under the lock of data.
TaskInsert(p) ==
    /\ task[p].pc = "insert"
    /\ store' = DataInsert(store, Call(p).key, RString(Call(p).value))
    /\ task' = [task EXCEPT ![p].pc = "read", ![p].seg = @ + 1, ![p].response = OkReply]
    /\ UNCHANGED <<client, hs, caller, script, sock, c2p, p2c, wlock, mapLock, slave_connections, now, applied, replica>>

\* KeyValueStore::get, up to the lookup: clean_expiries.  The lock of
\* expiries is held over the whole sweep; an insertion that comes between two
\* of its removals leaves what it leaves coming before or after the sweep.
TaskSweep(p) ==
    /\ task[p].pc = "read"
    /\ task[p].seg < Len(script[p])
    /\ Call(p).op = "get"
    /\ store' = CleanExpiries(store, now)
    /\ task' = [task EXCEPT ![p].pc = "lookup"]
    /\ UNCHANGED <<client, hs, caller, script, sock, c2p, p2c, wlock, mapLock, slave_connections, now, applied, replica>>

\* KeyValueStore::get: the lookup under the lock of data.
TaskLookup(p) ==
    /\ task[p].pc = "lookup"
    /\ task' = [task EXCEPT ![p].pc = "read", ![p].seg = @ + 1,
                            ![p].response = Lookup(store, Call(p).key)]
    /\ UNCHANGED <<client, hs, caller, script, sock, c2p, p2c, wlock, mapLock, slave_connections, now, applied, replica, store>>

TasksNext ==
    \/ Tick
    \/ \E p \in Clients : TaskSetExpiry(p)
    \/ \E p \in Clients : TaskInsert(p)
    \/ \E p \in Clients : TaskSweep(p)
    \/ \E p \in Clients : TaskLookup(p)

SpecStoreTasks == TasksInit /\ [][TasksNext]_vars

(***************************************************************************)
(* C32.  The calls of the store against each other.                        *)
(***************************************************************************)
\* C32, as stated: a call of the store is one step for the calls of other
\* tasks; no sweep runs between the recording of the expiry of a key and the
\* insertion of its value, and so, whenever no call is under way, a key that
\* only ever was set with an expiry is not in data without an entry in
\* expiries.
C32_StoreCallsAreAtomic ==
    (\A p \in Clients : task[p].pc = "read")
        => \A k \in DOMAIN store.data :
              \E t \in DOMAIN store.expiries : k \in Range(store.expiries[t])

=============================================================================
